---- MODULE Spec2Model ----
(***************************************************************************)
(* Flexural strength calculator for reinforced / prestressed concrete      *)
(* beams: the strain-compatibility solver analyzeBeam, its helpers, and    *)
(* the App component that validates the form's input and stores the        *)
(* result.                                                                 *)
(*                                                                         *)
(* Numbers.  The program computes in IEEE doubles.  The model computes in  *)
(* decimal fixed point: a length (in), area (in^2), stress (ksi), force    *)
(* (kip), moment (kip-in) or plain factor v is the integer v * Scale, and  *)
(* a strain e is the integer e * EScale.  Products and quotients are       *)
(* truncated toward zero.  NaN is a distinguished value that every         *)
(* arithmetic operation propagates and every comparison answers FALSE on,  *)
(* as in JavaScript.  A division by zero is an evaluation error of the     *)
(* model (the inputs drawn below never divide by zero).                    *)
(***************************************************************************)
EXTENDS Integers, Sequences, FiniteSets, TLC

VARIABLES
    pc,        \* where the current analyzeBeam call stands: "idle", "loop", "final"
    caller,    \* who made the current / last call: "none", "app", "direct"
    sec,       \* argument `section` of the current / last call
    layers,    \* argument `steelLayers` (handleCalculate: `layers`)
    cLow,      \* analyzeBeam locals
    cHigh,
    c,
    iter,
    converged, \* TRUE when the for-loop was left through `break`
    ret,       \* what the last analyzeBeam call returned: <<>> or <<result>>
    results,   \* App state (useState): <<>> is null, <<r>> is the object r
    section,
    error,
    hadResult, \* history: some earlier handleCalculate call stored a result
    probe,     \* pure-function specifications: [fn, x, steel/y, out]
    beamForm,  \* BeamInputForm state (useState): section, layers, nextId, and
               \* the nextId of the render whose handlers are on screen
    submitted  \* the arguments of the last onCalculate call: <<>> or <<args>>

vars == <<pc, caller, sec, layers, cLow, cHigh, c, iter, converged, ret,
          results, section, error, hadResult, probe, beamForm, submitted>>

-----------------------------------------------------------------------------
(* Fixed-point numbers *)

Scale == 10 ^ 4
EScale == 10 ^ 7
NaN == 0 - 2147483647

Null == <<>>
Some(x) == <<x>>

IsNaN(x) == x = NaN
Num(n) == n * Scale                    \* the integer n
Milli(n) == n * (Scale \div 1000)      \* n / 1000

AbsI(x) == IF x < 0 THEN 0 - x ELSE x
SignI(x) == IF x < 0 THEN 0 - 1 ELSE 1

\* floor(x*y/d) for naturals x, y and 0 < d < 7*10^8 without leaving 31 bits:
\* long multiplication over the base-B digits of y, carrying (q, r) with
\* x*y = q*d + r (B = 16 for d < 6*10^7, else 2).
RECURSIVE MulDivBase(_, _, _, _)
MulDivBase(x, y, d, B) ==
    IF y = 0 THEN [q |-> 0, r |-> 0]
    ELSE LET h == MulDivBase(x, y \div B, d, B)
             dg == y % B
             xq == x \div d
             xr == x % d
             t == B * h.r + dg * xr
         IN [q |-> B * h.q + dg * xq + (t \div d), r |-> t % d]

MulDivNat(x, y, d) == MulDivBase(x, y, d, IF d < 6 * 10 ^ 7 THEN 16 ELSE 2)

\* x*y/d truncated toward zero, NaN-propagating
MulDiv(x, y, d) ==
    IF IsNaN(x) \/ IsNaN(y) \/ IsNaN(d) THEN NaN
    ELSE (SignI(x) * SignI(y) * SignI(d)) * MulDivNat(AbsI(x), AbsI(y), AbsI(d)).q

Add(x, y) == IF IsNaN(x) \/ IsNaN(y) THEN NaN ELSE x + y
Sub(x, y) == IF IsNaN(x) \/ IsNaN(y) THEN NaN ELSE x - y
Neg(x) == IF IsNaN(x) THEN NaN ELSE 0 - x
Abs(x) == IF IsNaN(x) THEN NaN ELSE AbsI(x)
Mul(x, y) == MulDiv(x, y, Scale)
Div(x, y) == MulDiv(x, Scale, y)
Half(x) == IF IsNaN(x) THEN NaN ELSE SignI(x) * (AbsI(x) \div 2)

Lt(x, y) == ~IsNaN(x) /\ ~IsNaN(y) /\ x < y
Le(x, y) == ~IsNaN(x) /\ ~IsNaN(y) /\ x <= y
Gt(x, y) == Lt(y, x)
Ge(x, y) == Le(y, x)
Min(x, y) == IF IsNaN(x) \/ IsNaN(y) THEN NaN ELSE IF x < y THEN x ELSE y
\* x || y on numbers: y when x is NaN or 0
OrElse(x, y) == IF IsNaN(x) \/ x = 0 THEN y ELSE x

-----------------------------------------------------------------------------
(* Math.pow.  The power formula needs ratio^R for R up to 100, which leaves *)
(* the fixed-point range long before it leaves the doubles' range, so the  *)
(* model carries the natural logarithm of a power (LScale units) and only  *)
(* returns to a plain number where the code's value is of moderate size.   *)

LScale == 10 ^ 6

\* e^(r/LScale) * LScale for 0 <= r < ln 2: the Taylor series in Horner form
RECURSIVE ExpSeries(_, _)
ExpSeries(r, i) ==
    IF i > 10 THEN LScale
    ELSE LScale + MulDivNat(r, ExpSeries(r, i + 1), i * LScale).q

\* e^(t/LScale) in Scale units (t of either sign, result below 2^31)
Exp(t) ==
    LET ln2 == 693147
        k == t \div ln2
        e == ExpSeries(t % ln2, 1)
    IN IF k >= 0 THEN MulDivNat(e, 2 ^ k, LScale \div Scale).q
       ELSE IF k < 0 - 30 THEN 0
       ELSE (e \div (2 ^ (0 - k))) \div (LScale \div Scale)

\* the k with Scale * 2^k <= x < Scale * 2^(k+1), for x > 0
RECURSIVE Log2Floor(_)
Log2Floor(x) ==
    IF x >= 2 * Scale THEN 1 + Log2Floor(x \div 2)
    ELSE IF x < Scale THEN Log2Floor(2 * x) - 1
    ELSE 0

\* ln(x/Scale) * LScale for x > 0: x = m * 2^k with 1 <= m < 2 and
\* ln m = 2z(1 + w/3 + w^2/5 + ...), z = (m-1)/(m+1), w = z^2
Ln(x) ==
    LET ln2 == 693147
        k == Log2Floor(x)
        \* m/Scale in [1, 2), kept as the fraction mn/md
        sh == IF k > 8 THEN k - 8 ELSE 0
        mn == IF k >= 0 THEN x \div (2 ^ sh) ELSE x * (2 ^ (0 - k))
        md == IF k >= 0 THEN Scale * (2 ^ (k - sh)) ELSE Scale
        z == MulDivNat(mn - md, LScale, mn + md).q
        w == MulDivNat(z, z, LScale).q
        T(a, b) == a + MulDivNat(w, b, LScale).q
        p == T(LScale, T(333333, T(200000, T(142857, T(111111, T(90909, 76923))))))
    IN k * ln2 + 2 * MulDivNat(z, p, LScale).q

\* floor(sqrt(x/Scale) * Scale) for x >= 0 (Math.sqrt)
RECURSIVE SqrtIter(_, _, _)
SqrtIter(n, lo, hi) ==
    \* largest s in lo..hi with s*s <= n * Scale, by bisection
    IF lo >= hi THEN lo
    ELSE LET mid == (lo + hi + 1) \div 2
         IN IF MulDivNat(mid, mid, Scale).q <= n
            THEN SqrtIter(n, mid, hi) ELSE SqrtIter(n, lo, mid - 1)

Sqrt(x) ==
    IF IsNaN(x) \/ x < 0 THEN NaN ELSE SqrtIter(x, 0, 4 * 10 ^ 6)

\* pi and pi / 2 as angles, in LScale units
PiAngle == 3141593
HalfPiAngle == 1570796

\* sin(x) / x for 0 <= x <= pi / 2, given x2 = x * x: the Taylor series in
\* Horner form, 1 - x2/6 (1 - x2/20 (1 - x2/42 ( ... )))
RECURSIVE SinSeries(_, _)
SinSeries(x2, i) ==
    IF i > 7 THEN LScale
    ELSE LScale - (MulDivNat(x2, SinSeries(x2, i + 1), LScale).q \div ((2 * i) * (2 * i + 1)))

\* sin(x) for 0 <= x <= pi / 2
SinQuadrant(x) == MulDivNat(x, SinSeries(MulDivNat(x, x, LScale).q, 1), LScale).q

\* Math.sin for an angle of [0, 2 pi], angle and value in LScale units
Sin(x) ==
    IF x <= HalfPiAngle THEN SinQuadrant(x)
    ELSE IF x <= PiAngle THEN SinQuadrant(PiAngle - x)
    ELSE IF x <= PiAngle + HalfPiAngle THEN 0 - SinQuadrant(x - PiAngle)
    ELSE 0 - SinQuadrant(2 * PiAngle - x)

\* Math.cos for an angle of [0, pi]
Cos(x) ==
    IF x <= HalfPiAngle THEN SinQuadrant(HalfPiAngle - x)
    ELSE 0 - SinQuadrant(x - HalfPiAngle)

\* Math.acos(y) for -1 <= y <= 1: the angle of [lo, hi] whose cosine is y, by
\* bisection (the cosine falls from 1 to -1 over [0, pi])
RECURSIVE AcosIter(_, _, _)
AcosIter(y, lo, hi) ==
    IF hi - lo <= 1 THEN lo
    ELSE IF Cos((lo + hi) \div 2) > y
         THEN AcosIter(y, (lo + hi) \div 2, hi)
         ELSE AcosIter(y, lo, (lo + hi) \div 2)

Acos(y) ==
    IF IsNaN(y) \/ y > LScale \/ y < 0 - LScale THEN NaN
    ELSE IF y = LScale THEN 0
    ELSE IF y = 0 - LScale THEN PiAngle
    ELSE AcosIter(y, 0, PiAngle)

\* ln of Math.pow(x, y) for x > 0, in LScale units
PowLn(x, y) == MulDiv(y, Ln(x), Scale)

\* ln(Number.MAX_VALUE): Math.pow returns Infinity above it
LnMaxDouble == 709782712
Infinity == 0 - NaN

-----------------------------------------------------------------------------
(* Steel catalog *)

Steel(id, name, cat, Es, fpu, fpy, cap, Q, R, K, fse) ==
    [id |-> id, name |-> name, category |-> cat, Es |-> Es, fpu |-> fpu, fpy |-> fpy,
     stressCap |-> cap, Q |-> Q, R |-> R, K |-> K, defaultFse |-> fse]

steelPresets == <<
    Steel("grade60", "Grade 60 Bars", "mild", Num(29000), Num(90), Num(60), Num(60),
          0, Num(100), Milli(1096), 0),
    Steel("grade65", "Grade 65 WWR", "mild", Num(29000), Num(80), Num(65), Num(65),
          0, Num(100), Milli(1096), 0),
    Steel("grade70", "Grade 70 Plate", "mild", Num(29000), Num(90), Num(70), Num(70),
          0, Num(100), Milli(1060), 0),
    Steel("grade150", "Gr. 150 Rods", "prestressing", Num(29000), Num(150), Milli(127500), Num(150),
          Milli(16), Milli(3750), Milli(1040), 0),
    Steel("grade270", "Gr. 270 Strand", "prestressing", Num(28800), Num(270), Num(243), Num(270),
          Milli(31), Milli(7360), Milli(1043), Num(170)),
    Steel("grade250", "Gr. 250 Strand", "prestressing", Num(28800), Num(250), Num(225), Num(250),
          Milli(31), Milli(7360), Milli(1043), Num(150)) >>

Preset(id) == CHOOSE p \in {steelPresets[i] : i \in DOMAIN steelPresets} : p.id = id

-----------------------------------------------------------------------------
(* ACI 318 helpers *)

\* an interpolation that gives 0.70 at fc = 6
beta1Steep(fc) ==
    IF Le(fc, Num(4)) THEN Milli(850)
    ELSE IF Ge(fc, Num(8)) THEN Milli(650)
    ELSE Sub(Milli(850), Mul(Milli(75), Sub(fc, Num(4))))

beta1(fc) ==
    IF Le(fc, Num(4)) THEN Milli(850)
    ELSE IF Ge(fc, Num(8)) THEN Milli(650)
    ELSE Sub(Milli(850), Mul(Milli(50), Sub(fc, Num(4))))

\* 0.003 as a strain
Strain003 == 3 * (EScale \div 1000)

\* the limits of ACI 318-14: 0.002 and 0.005 whatever the steel's yield strain
phiFactorFixedLimits(epsilonT, epsilonTy) ==
    LET ty == 2 * (EScale \div 1000)
    IN IF Ge(epsilonT, Add(ty, Strain003)) THEN Milli(900)
       ELSE IF Le(epsilonT, ty) THEN Milli(650)
       ELSE Add(Milli(650), MulDiv(Milli(250), Sub(epsilonT, ty), Strain003))

\* an upper limit of epsilonTy + 0.03, ten times the code's
phiFactorLimit03(epsilonT, epsilonTy) ==
    IF Ge(epsilonT, Add(epsilonTy, 10 * Strain003)) THEN Milli(900)
    ELSE IF Le(epsilonT, epsilonTy) THEN Milli(650)
    ELSE Add(Milli(650), MulDiv(Milli(250), Sub(epsilonT, epsilonTy), 10 * Strain003))

phiFactor(epsilonT, epsilonTy) ==
    IF Ge(epsilonT, Add(epsilonTy, Strain003)) THEN Milli(900)
    ELSE IF Le(epsilonT, epsilonTy) THEN Milli(650)
    ELSE Add(Milli(650), MulDiv(Milli(250), Sub(epsilonT, epsilonTy), Strain003))

-----------------------------------------------------------------------------
(* Power formula *)

\* Math.pow(1 + ratioR, 1 / R), given t = ln(ratioR)
BracketOfLn(t, R) ==
    LET \* ln(1 + ratioR)
        lnSum == IF t > 9 * LScale
                 THEN t + Exp(0 - t) * (LScale \div Scale)
                 ELSE Ln(Num(1) + Exp(t))
    IN IF t > LnMaxDouble THEN Infinity
       ELSE Exp(MulDiv(lnSum, Scale, R))

\* Math.pow(1 + Math.pow(ratio, R), 1 / R) for ratio >= 0
Bracket(ratio, R) ==
    IF IsNaN(ratio) THEN NaN
    ELSE IF ratio = 0 THEN Num(1)
    ELSE BracketOfLn(PowLn(ratio, R), R)

\* EsEps * (Q + (1 - Q) / bracket), the product distributed so that the
\* small quotient is not truncated before it is scaled
FsOfBracket(EsEps, Q, bracket) ==
    IF bracket = Infinity THEN Mul(EsEps, Q)
    ELSE Add(Mul(EsEps, Q), MulDiv(EsEps, Sub(Num(1), Q), bracket))

\* fs from EsEps = Es * absEps
FsOfEsEps(EsEps, steel) ==
    FsOfBracket(EsEps, steel.Q, Bracket(Div(EsEps, Mul(steel.K, steel.fpy)), steel.R))

\* fs, before the cap
PowerFs(absEps, steel) == FsOfEsEps(MulDiv(steel.Es, absEps, EScale), steel)

\* a return without the sign: fsCapped for either direction of the strain
SignedStressMagnitude(epsilonS, fsCapped) ==
    IF ~IsNaN(epsilonS) /\ AbsI(epsilonS) < 1 THEN 0 ELSE fsCapped

\* epsilonS >= 0 ? fsCapped : -fsCapped, behind the guard of the strain 0:
\* Math.abs(epsilonS) < 1e-12, and 1e-12 is less than one strain unit, so
\* the guard holds of the strain 0 alone
SignedStress(epsilonS, fsCapped) ==
    IF ~IsNaN(epsilonS) /\ AbsI(epsilonS) < 1 THEN 0
    ELSE IF Ge(epsilonS, 0) THEN fsCapped ELSE Neg(fsCapped)

\* the cap at fpu for every steel, as utils/beamCalculations.js has it
powerFormulaStressCapAtFpu(epsilonS, steel) ==
    SignedStress(epsilonS, Min(PowerFs(Abs(epsilonS), steel), steel.fpu))

\* a stress that only tends to the cap: fs * cap / (fs + cap) in place of
\* Math.min(fs, cap)
powerFormulaStressSaturating(epsilonS, steel) ==
    SignedStress(epsilonS, MulDiv(PowerFs(Abs(epsilonS), steel), steel.stressCap,
                                  Add(PowerFs(Abs(epsilonS), steel), steel.stressCap)))

powerFormulaStress(epsilonS, steel) ==
    SignedStress(epsilonS, Min(PowerFs(Abs(epsilonS), steel), steel.stressCap))

\* ecu * (di / c - 1) + fse / Es, as a strain; ecu * (di / c - 1) is
\* evaluated as ecu * (di - c) / c  (cNA is the code's c)
steelStrain(di, cNA, fse, Es) ==
    LET ecu == Strain003
        eso == MulDiv(fse, EScale, Es)
    IN Add(MulDiv(ecu, Sub(di, cNA), cNA), eso)

-----------------------------------------------------------------------------
(* Section geometry.  A section is a record with the fields of the form's  *)
(* section object; sect is the code's parameter `section`.  The section    *)
(* types drawn below are rectangular, tbeam, sandwich, doubletee and       *)
(* hollowcore.                                                             *)

\* Math.PI
Pi == 31416

Cube(x) == Mul(Mul(x, x), x)
Square(x) == Mul(x, x)

\* the circular segment cut from a void of radius r, given the angle theta
\* it subtends with sin(theta) and sin(theta / 2): its area
\* (r * r / 2) * (theta - sin(theta)) and the code's yBar,
\* 4 r sin(theta / 2)^3 / (3 (theta - sin(theta)))
SegmentOf(r, theta, sinTheta, sinHalf) ==
    [area |-> MulDiv(Half(Mul(r, r)), theta - sinTheta, LScale),
     yBar |-> IF theta = sinTheta THEN NaN
              ELSE MulDiv(4 * r,
                          MulDivNat(MulDivNat(sinHalf, sinHalf, LScale).q, sinHalf, LScale).q,
                          3 * (theta - sinTheta))]

SegmentAtAngle(r, theta) == SegmentOf(r, theta, Sin(theta), Sin(theta \div 2))

\* the segment of depth hs: theta = 2 * Math.acos((r - hs) / r)
VoidSegment(r, hs) == SegmentAtAngle(r, 2 * Acos(MulDiv(Sub(r, hs), LScale, r)))

\* voidArea and voidMoment of numVoids voids each cut to the segment seg,
\* whose centroid the code puts at voidTop + yBar
VoidsOfSegment(numVoids, voidTop, seg) ==
    [area |-> Mul(numVoids, seg.area),
     moment |-> Mul(numVoids, Mul(seg.area, Add(voidTop, seg.yBar)))]

\* voidArea and voidMoment of the voids within the stress block of depth a
VoidsWithin(a, numVoids, r, voidCenterDepth) ==
    IF ~(Gt(a, Sub(voidCenterDepth, r)) /\ Gt(voidCenterDepth, 0))
    THEN [area |-> 0, moment |-> 0]
    ELSE IF Ge(a, Add(voidCenterDepth, r))
    THEN [area |-> Mul(numVoids, Mul(Pi, Square(r))),
          moment |-> Mul(numVoids, Mul(Mul(Pi, Square(r)), voidCenterDepth))]
    ELSE VoidsOfSegment(numVoids, Sub(voidCenterDepth, r),
                        VoidSegment(r, Sub(a, Sub(voidCenterDepth, r))))

\* 0.85 * fc * (grossArea - voidArea)
HollowCompression(fc, grossArea, voids) ==
    Mul(Mul(Milli(850), fc), Sub(grossArea, voids.area))

\* (grossArea * grossCentroid - voidMoment) / netArea, or grossCentroid when
\* netArea <= 0
HollowCentroid(a, grossArea, voids) ==
    IF Le(Sub(grossArea, voids.area), 0) THEN Half(a)
    ELSE Div(Sub(Mul(grossArea, Half(a)), voids.moment), Sub(grossArea, voids.area))

concreteCompression(fc, a, bf, bw, hf, sect) ==
    IF sect.sectionType = "sandwich" THEN
        LET bt == sect.bt
            ht == sect.ht
            hg == sect.hg
            bb == sect.bb
        IN IF Le(a, ht) THEN Mul(Mul(Mul(Milli(850), fc), a), bt)
           ELSE IF Le(a, Add(ht, hg)) THEN Mul(Mul(Mul(Milli(850), fc), ht), bt)
           ELSE Mul(Mul(Milli(850), fc),
                    Add(Mul(ht, bt), Mul(Sub(Sub(a, ht), hg), bb)))
    ELSE IF sect.sectionType = "doubletee" THEN
        LET numStems == sect.numStems
            stemWidth == sect.stemWidth
        IN IF Le(a, hf) THEN Mul(Mul(Mul(Milli(850), fc), a), bf)
           ELSE Mul(Mul(Milli(850), fc),
                    Add(Mul(hf, bf), Mul(Mul(Sub(a, hf), numStems), stemWidth)))
    ELSE IF sect.sectionType = "hollowcore" THEN
        HollowCompression(fc, Mul(bf, a),
                          VoidsWithin(a, sect.numVoids, Half(sect.voidDiameter),
                                      sect.voidCenterDepth))
    ELSE \* T-beam and rectangular sections
        IF Le(a, hf) THEN Mul(Mul(Mul(Milli(850), fc), a), bf)
        ELSE Mul(Mul(Milli(850), fc), Add(Mul(hf, bf), Mul(Sub(a, hf), bw)))

\* (A1 * y1 + A2 * y2) / (A1 + A2)
WeightedCentroid(A1, y1, A2, y2) ==
    MulDiv(Add(Mul(A1, y1), Mul(A2, y2)), Scale, Add(A1, A2))

compressionCentroid(a, bf, bw, hf, sect) ==
    IF sect.sectionType = "sandwich" THEN
        LET bt == sect.bt
            ht == sect.ht
            hg == sect.hg
            bb == sect.bb
            topArea == Mul(ht, bt)
            botArea == Mul(Sub(Sub(a, ht), hg), bb)
        IN IF Le(a, ht) THEN Half(a)
           ELSE IF Le(a, Add(ht, hg)) THEN Half(ht)
           ELSE WeightedCentroid(topArea, Half(ht), botArea,
                                 Add(Add(ht, hg), Half(Sub(Sub(a, ht), hg))))
    ELSE IF sect.sectionType = "doubletee" THEN
        LET flangeArea == Mul(hf, bf)
            stemArea == Mul(Mul(Sub(a, hf), sect.numStems), sect.stemWidth)
        IN IF Le(a, hf) THEN Half(a)
           ELSE WeightedCentroid(flangeArea, Half(hf), stemArea,
                                 Add(hf, Half(Sub(a, hf))))
    ELSE IF sect.sectionType = "hollowcore" THEN
        HollowCentroid(a, Mul(bf, a),
                       VoidsWithin(a, sect.numVoids, Half(sect.voidDiameter),
                                   sect.voidCenterDepth))
    ELSE
        LET flangeArea == Mul(hf, bf)
            webArea == Mul(Sub(a, hf), bw)
        IN IF Le(a, hf) THEN Half(a)
           ELSE WeightedCentroid(flangeArea, Half(hf), webArea,
                                 Add(hf, Half(Sub(a, hf))))

-----------------------------------------------------------------------------
(* Gross section properties and the cracking check *)


\* b*h^3/12 + A*(y - yCg)^2
PartInertia(b, hh, A, y, yCg) ==
    Add(Div(Mul(b, Cube(hh)), Num(12)), Mul(A, Square(Sub(y, yCg))))

\* two stacked rectangles of areas A1, A2 with centroids at y1, y2
TwoPartAbout(b1, h1, A1, y1, b2, h2, A2, y2, yCg) ==
    [A |-> Add(A1, A2), yCg |-> yCg,
     Ig |-> Add(PartInertia(b1, h1, A1, y1, yCg), PartInertia(b2, h2, A2, y2, yCg))]

\* two stacked rectangles with the upper part's centroid taken at a quarter
\* of its depth
TwoPartUpperAtQuarter(b1, h1, b2, h2, y2) ==
    TwoPartAbout(b1, h1, Mul(b1, h1), Half(Half(h1)), b2, h2, Mul(b2, h2), y2,
                 WeightedCentroid(Mul(b1, h1), Half(Half(h1)), Mul(b2, h2), y2))

\* (b1 x h1) on top, (b2 x h2) with its centroid at depth y2
TwoPart(b1, h1, b2, h2, y2) ==
    TwoPartAbout(b1, h1, Mul(b1, h1), Half(h1), b2, h2, Mul(b2, h2), y2,
                 WeightedCentroid(Mul(b1, h1), Half(h1), Mul(b2, h2), y2))

\* yb = h - yCg and Sb = Ig / yb added to (A, yCg, Ig)
WithBottomFibre(h, p) ==
    [A |-> p.A, yCg |-> p.yCg, Ig |-> p.Ig, yb |-> Sub(h, p.yCg),
     Sb |-> Div(p.Ig, Sub(h, p.yCg))]


\* the solid bf x h rectangle less numVoids circles of radius r centred at
\* depth voidCenterDepth, about the centroid yCg
HollowAbout(bf, h, numVoids, r, voidCenterDepth, voidA, A, yCg) ==
    LET grossI == Add(Div(Mul(bf, Cube(h)), Num(12)),
                      Mul(Mul(bf, h), Square(Sub(Half(h), yCg))))
        voidIself == Div(Mul(numVoids, Mul(Pi, Square(Square(r)))), Num(4))
        voidIpar == Mul(voidA, Square(Sub(voidCenterDepth, yCg)))
    IN [A |-> A, yCg |-> yCg, Ig |-> Sub(Sub(grossI, voidIself), voidIpar)]

\* A = bf * h - voidA and yCg = (grossMoment - voidMoment) / A
HollowOfVoidArea(bf, h, numVoids, r, voidCenterDepth, voidA) ==
    HollowAbout(bf, h, numVoids, r, voidCenterDepth, voidA,
                Sub(Mul(bf, h), voidA),
                Div(Sub(Mul(Mul(bf, h), Half(h)), Mul(voidA, voidCenterDepth)),
                    Sub(Mul(bf, h), voidA)))

Hollow(bf, h, numVoids, voidDiameter, voidCenterDepth) ==
    HollowOfVoidArea(bf, h, numVoids, Half(voidDiameter), voidCenterDepth,
                     Mul(Mul(Mul(numVoids, Pi), Half(voidDiameter)), Half(voidDiameter)))

grossSectionProperties(sect) ==
    LET h == sect.h
        Rect(b) == [A |-> Mul(b, h), yCg |-> Half(h),
                    Ig |-> Div(Mul(b, Cube(h)), Num(12))]
    IN WithBottomFibre(h,
         IF sect.sectionType = "rectangular" THEN Rect(sect.bw)
         ELSE IF sect.sectionType = "tbeam" THEN
             LET hw == Sub(h, sect.hf)
             IN TwoPart(sect.bf, sect.hf, sect.bw, hw, Add(sect.hf, Half(hw)))
         ELSE IF sect.sectionType = "sandwich" THEN
             LET hb2 == Sub(Sub(h, sect.ht), sect.hg)
             IN TwoPart(sect.bt, sect.ht, sect.bb, hb2,
                        Add(Add(sect.ht, sect.hg), Half(hb2)))
         ELSE IF sect.sectionType = "doubletee" THEN
             LET hs == Sub(h, sect.hf)
             IN TwoPart(sect.bf, sect.hf, Mul(sect.numStems, sect.stemWidth), hs,
                        Add(sect.hf, Half(hs)))
         ELSE IF sect.sectionType = "hollowcore" THEN
             Hollow(sect.bf, h, sect.numVoids, sect.voidDiameter, sect.voidCenterDepth)
         ELSE Rect(OrElse(sect.bf, sect.bw)))

RECURSIVE PrestressSumsOfAll(_, _)
\* sums that take every layer in, whatever the sign of its fse
PrestressSumsOfAll(steelLayers, i) ==
    IF i > Len(steelLayers) THEN [P |-> 0, PeMoment |-> 0]
    ELSE [P |-> Add(Mul(steelLayers[i].fse, steelLayers[i].area),
                    PrestressSumsOfAll(steelLayers, i + 1).P),
          PeMoment |-> Add(Mul(Mul(steelLayers[i].fse, steelLayers[i].area),
                               steelLayers[i].depth),
                           PrestressSumsOfAll(steelLayers, i + 1).PeMoment)]

RECURSIVE PrestressSums(_, _)
\* (P, PeMoment) over the layers i..Len with fse > 0
PrestressSums(steelLayers, i) ==
    IF i > Len(steelLayers) THEN [P |-> 0, PeMoment |-> 0]
    ELSE LET rest == PrestressSums(steelLayers, i + 1)
             layer == steelLayers[i]
             force == Mul(layer.fse, layer.area)
         IN IF Gt(layer.fse, 0)
            THEN [P |-> Add(force, rest.P),
                  PeMoment |-> Add(Mul(force, layer.depth), rest.PeMoment)]
            ELSE rest

\* a cracking record whose threshold is Mcr itself, without the factor 1.2
CrackingRecordThresholdAtMcr(sectionProps, sums, fr, phiMn) ==
    LET A == sectionProps.A
        yCg == sectionProps.yCg
        Sb == sectionProps.Sb
        P == sums.P
        yps == IF Gt(P, 0) THEN Div(sums.PeMoment, P) ELSE yCg
        e == Sub(yps, yCg)
        Mcr == Mul(Sb, Add(Add(fr, Div(P, A)), Div(Mul(P, e), Sb)))
    IN [P |-> P, fpc |-> Div(P, A), e |-> e, yps |-> yps, fr |-> fr, Mcr |-> Mcr,
        McrFt |-> Div(Mcr, Num(12)), threshold |-> Mcr,
        thresholdFt |-> Div(Mcr, Num(12)),
        passesMinStrength |-> Ge(phiMn, Mcr),
        sectionProps |-> sectionProps]

\* the cracking record from the section properties, the sums (P, PeMoment)
\* and the modulus of rupture fr
CrackingRecord(sectionProps, sums, fr, phiMn) ==
    LET A == sectionProps.A
        yCg == sectionProps.yCg
        Sb == sectionProps.Sb
        P == sums.P
        yps == IF Gt(P, 0) THEN Div(sums.PeMoment, P) ELSE yCg
        e == Sub(yps, yCg)
        fpc == Div(P, A)
        Mcr == Mul(Sb, Add(Add(fr, Div(P, A)), Div(Mul(P, e), Sb)))
        threshold == Mul(Milli(1200), Mcr)
    IN [P |-> P, fpc |-> fpc, e |-> e, yps |-> yps, fr |-> fr, Mcr |-> Mcr,
        McrFt |-> Div(Mcr, Num(12)), threshold |-> threshold,
        thresholdFt |-> Div(threshold, Num(12)),
        passesMinStrength |-> Ge(phiMn, threshold),
        sectionProps |-> sectionProps]

prestressAndCracking(sect, steelLayers, phiMn) ==
    CrackingRecord(grossSectionProperties(sect), PrestressSums(steelLayers, 1),
                   \* fr = 7.5 * sqrt(fc * 1000) / 1000
                   Div(Mul(Milli(7500), Sqrt(Mul(sect.fc, Num(1000)))), Num(1000)),
                   phiMn)

-----------------------------------------------------------------------------
(* analyzeBeam: the quantities of one trial depth and the result record *)

maxIter == 500

\* a tolerance of one kip
WithinToleranceKip(residual) ==
    ~IsNaN(residual) /\ AbsI(residual) < Num(1)

\* Math.abs(residual) < tolerance, tolerance = 1e-6 kip: |residual|/Scale < 1/10^6
WithinTolerance(residual) ==
    ~IsNaN(residual) /\ AbsI(residual) * ((10 ^ 6) \div Scale) < 1

\* a loop that stops one pass short of the cap
LoopContinuesOneShort(i) == i < maxIter - 1

\* a loop without a cap
LoopContinuesUncapped(i) == i >= 0

\* the for-loop's condition
LoopContinues(i) == i < maxIter

\* fs * layer.area, with the strain and the stress it comes from
ForceOfStress(eps, fs, area) == [strain |-> eps, stress |-> fs, force |-> Mul(fs, area)]

StressAtStrain(eps, layer) ==
    ForceOfStress(eps, powerFormulaStress(eps, layer.steel), layer.area)

LayerForce(layer, cNA) ==
    StressAtStrain(steelStrain(layer.depth, cNA, layer.fse, layer.steel.Es), layer)

RECURSIVE TotalSteelForce(_, _, _)
\* totalSteelForce accumulated over the layers i..Len, in list order
TotalSteelForce(steelLayers, cNA, i) ==
    IF i > Len(steelLayers) THEN 0
    ELSE Add(LayerForce(steelLayers[i], cNA).force,
             TotalSteelForce(steelLayers, cNA, i + 1))

\* Cc - totalSteelForce at the trial depth cNA
Residual(sect, steelLayers, cNA) ==
    LET a == Mul(beta1(sect.fc), cNA)
        Cc == concreteCompression(sect.fc, a, sect.bf, sect.bw, sect.hf, sect)
    IN Sub(Cc, TotalSteelForce(steelLayers, cNA, 1))

\* { ...layer, strain, stress, force }
LayerResult(layer, f) ==
    [area |-> layer.area, depth |-> layer.depth, fse |-> layer.fse,
     steel |-> layer.steel, name |-> layer.name,
     strain |-> f.strain, stress |-> f.stress, force |-> f.force]

\* steelLayers.map(...): each layer with its strain, stress and force
LayerResults(steelLayers, cNA) ==
    [i \in DOMAIN steelLayers |-> LayerResult(steelLayers[i], LayerForce(steelLayers[i], cNA))]

RECURSIVE SumForceDepthCarried(_, _)
\* a moment sum that starts from the Mn of the result on display instead of 0:
\* a total kept outside the function and never reset
SumForceDepthCarried(lrs, i) ==
    IF i > Len(lrs) THEN (IF results = Null THEN 0 ELSE results[1].Mn)
    ELSE Add(Mul(lrs[i].force, lrs[i].depth), SumForceDepthCarried(lrs, i + 1))

RECURSIVE SumForceDepth(_, _)
SumForceDepth(lrs, i) ==
    IF i > Len(lrs) THEN 0
    ELSE Add(Mul(lrs[i].force, lrs[i].depth), SumForceDepth(lrs, i + 1))

RECURSIVE ExtremeTension(_, _, _, _)
\* the scan for the deepest layer: (maxDepth, index of extremeTensionLayer or 0)
ExtremeTension(lrs, i, maxDepth, best) ==
    IF i > Len(lrs) THEN [maxDepth |-> maxDepth, idx |-> best]
    ELSE IF Gt(lrs[i].depth, maxDepth)
         THEN ExtremeTension(lrs, i + 1, lrs[i].depth, i)
         ELSE ExtremeTension(lrs, i + 1, maxDepth, best)

\* extremeTensionLayer.steel.fpy / extremeTensionLayer.steel.Es, or 0.002
EpsilonTy(lrs) ==
    LET ext == ExtremeTension(lrs, 1, 0, 0)
    IN IF ext.idx # 0
       THEN MulDiv(lrs[ext.idx].steel.fpy, EScale, lrs[ext.idx].steel.Es)
       ELSE 2 * (EScale \div 1000)

\* a, Cc, the centroid of the compression block and the layer results at c
SectionForces(sect, steelLayers, cNA) ==
    LET b1 == beta1(sect.fc)
        a == Mul(b1, cNA)
    IN [c |-> cNA, a |-> a, beta1 |-> b1,
        Cc |-> concreteCompression(sect.fc, a, sect.bf, sect.bw, sect.hf, sect),
        ccCentroid |-> compressionCentroid(a, sect.bf, sect.bw, sect.hf, sect),
        layerResults |-> LayerResults(steelLayers, cNA)]

\* the record returned, from the forces f, the moment Mn and the extreme
\* tension layer ext
ResultOfMoment(sect, steelLayers, f, Mn, ext) ==
    LET epsilonT == IF ext.idx # 0 THEN f.layerResults[ext.idx].strain ELSE 0
        epsilonTy == EpsilonTy(f.layerResults)
        phi == phiFactor(epsilonT, epsilonTy)
        phiMn == Mul(phi, Mn)
        dt == IF ext.maxDepth = 0 THEN Num(1) ELSE ext.maxDepth
    IN [c |-> f.c, a |-> f.a, beta1 |-> f.beta1, Cc |-> f.Cc,
        ccCentroid |-> f.ccCentroid, layerResults |-> f.layerResults,
        Mn |-> Mn, MnFt |-> Div(Mn, Num(12)),
        phi |-> phi, phiMn |-> phiMn, phiMnFt |-> Div(phiMn, Num(12)),
        epsilonT |-> epsilonT,
        cOverD |-> Div(f.c, dt), fc |-> sect.fc, section |-> sect,
        ductile |-> Ge(epsilonT, Add(epsilonTy, Strain003)),
        transition |-> Ge(epsilonT, epsilonTy)
                       /\ Lt(epsilonT, Add(epsilonTy, Strain003)),
        cracking |-> prestressAndCracking(sect, steelLayers, phiMn)]

\* Mn = sum of lr.force * lr.depth - Cc * ccCentroid
ResultOfForces(sect, steelLayers, f) ==
    ResultOfMoment(sect, steelLayers, f,
                   Sub(SumForceDepth(f.layerResults, 1), Mul(f.Cc, f.ccCentroid)),
                   ExtremeTension(f.layerResults, 1, 0, 0))

\* the record analyzeBeam returns once the loop has left c
AnalysisResult(sect, steelLayers, cNA) ==
    ResultOfForces(sect, steelLayers, SectionForces(sect, steelLayers, cNA))

\* an analyzeBeam that refuses a list without layers
AnalyzeBeamRejectsEmpty(sect, steelLayers) == Len(steelLayers) = 0

\* analyzeBeam checks none of its arguments: no input makes it throw
AnalyzeBeamThrows(sect, steelLayers) == FALSE

-----------------------------------------------------------------------------
(* BeamInputForm.handleSubmit.  A text field of the form holds either the  *)
(* decimal number it spells or the empty string.                           *)

EmptyText == NaN + 1

parseFloat(txt) == IF txt = EmptyText THEN NaN ELSE txt
parseInt(txt) == IF txt = EmptyText THEN NaN ELSE (txt \div Scale) * Scale

FinalSection(form) ==
    LET t == form.sectionType
    IN [sectionType |-> t,
        \* a rectangular section passes bw on as the form holds it, and the
        \* bw field's onChange has stored parseFloat of its text
        bf |-> IF t = "rectangular" THEN parseFloat(form.bw) ELSE parseFloat(form.bf),
        bw |-> IF t = "hollowcore" \/ t = "doubletee"
               THEN parseFloat(form.bf) ELSE parseFloat(form.bw),
        hf |-> IF t = "rectangular" THEN parseFloat(form.h) ELSE parseFloat(form.hf),
        h |-> parseFloat(form.h),
        fc |-> parseFloat(form.fc),
        bt |-> parseFloat(form.bt),
        ht |-> parseFloat(form.ht),
        hg |-> parseFloat(form.hg),
        bb |-> parseFloat(form.bb),
        hb |-> parseFloat(form.hb),
        numStems |-> OrElse(parseInt(form.numStems), Num(2)),
        stemWidth |-> OrElse(parseFloat(form.stemWidth), Num(5)),
        stemSpacing |-> OrElse(parseFloat(form.stemSpacing), Num(40)),
        numVoids |-> OrElse(parseInt(form.numVoids), 0),
        voidDiameter |-> OrElse(parseFloat(form.voidDiameter), 0),
        voidCenterDepth |-> OrElse(parseFloat(form.voidCenterDepth),
                                   Half(parseFloat(form.h)))]

FinalLayers(formLayers) ==
    [i \in DOMAIN formLayers |->
        LET l == formLayers[i]
            preset == Preset(l.steelPresetId)
        IN [area |-> parseFloat(l.area), depth |-> parseFloat(l.depth),
            fse |-> OrElse(parseFloat(l.fse), 0),
            steel |-> preset, name |-> preset.name]]

-----------------------------------------------------------------------------
(* App.handleCalculate *)

Err(msg, layer, value) == [msg |-> msg, layer |-> layer, value |-> value]

RECURSIVE LayerError(_, _, _)
\* the first throw of the validation loop over layers i..Len, or Null
LayerError(sect, ls, i) ==
    IF i > Len(ls) THEN Null
    ELSE IF Le(ls[i].depth, 0) \/ Gt(ls[i].depth, sect.h)
         THEN Some(Err("depth must be between 0 and total beam depth", i, sect.h))
    ELSE IF Le(ls[i].area, 0)
         THEN Some(Err("steel area must be positive", i, 0))
    ELSE LayerError(sect, ls, i + 1)

\* what handleCalculate throws before it calls analyzeBeam, or Null
ValidationError(sect, ls) ==
    IF Len(ls) = 0
    THEN Some(Err("Add at least one steel reinforcement layer.", 0, 0))
    ELSE LayerError(sect, ls, 1)

RECURSIVE SumForces(_, _)
\* res.layerResults.reduce((s, lr) => s + lr.force, 0)
SumForces(lrs, i) ==
    IF i > Len(lrs) THEN 0 ELSE Add(lrs[i].force, SumForces(lrs, i + 1))

\* Math.abs(res.Cc - totalSteel)
EquilibriumError(res) == Abs(Sub(res.Cc, SumForces(res.layerResults, 1)))

\* equilibriumError.toFixed(3): rounded to the nearest thousandth
ToFixed3(x) ==
    IF IsNaN(x) THEN NaN
    ELSE SignI(x) * (((AbsI(x) + (Scale \div 2000)) \div (Scale \div 1000)) * (Scale \div 1000))

\* a check that lets an imbalance of up to one kip pass
EquilibriumFailsAboveOneKip(res) == Gt(EquilibriumError(res), Num(1))

\* equilibriumError > 0.1
EquilibriumFails(res) == Gt(EquilibriumError(res), Milli(100))

\* a catch block that sets the message and leaves the earlier result in place
CatchStateKeepsResult(e) == [error |-> Some(e), results |-> results, section |-> section]

\* the catch block: setError(e.message); setResults(null); setSection(null)
CatchState(e) == [error |-> Some(e), results |-> Null, section |-> Null]

\* setResults(res); setSection(sec), after setError(null)
SuccessState(res, sect) == [error |-> Null, results |-> Some(res), section |-> Some(sect)]

-----------------------------------------------------------------------------
(* The inputs.  Each case is one content of the form (section fields as    *)
(* entered, layer rows as entered).  The sections and steel areas are      *)
(* chosen so that the equilibrium depth, where there is one, is a trial    *)
(* depth of the bisection and the forces there are decimal numbers: the    *)
(* fixed-point residual is then exactly 0 where the doubles' residual is   *)
(* below 1e-6, and the model leaves the loop where the program does.       *)

DEFAULT_SECTION ==
    [sectionType |-> "rectangular", bf |-> Num(16), bw |-> Num(16), hf |-> 0,
     h |-> Num(6), fc |-> Num(5),
     bt |-> Num(16), ht |-> Num(8), hg |-> Num(4), bb |-> Num(16), hb |-> Num(8),
     numStems |-> Num(2), stemWidth |-> Num(5), stemSpacing |-> Num(40),
     numVoids |-> Num(4), voidDiameter |-> Num(6), voidCenterDepth |-> Num(12)]

RectForm(bw, h, fc) ==
    [DEFAULT_SECTION EXCEPT !.bf = bw, !.bw = bw, !.h = h, !.fc = fc]

Row(presetId, area, depth, fse) ==
    [steelPresetId |-> presetId, area |-> area, depth |-> depth, fse |-> fse]

Case(form, rows) == [section |-> form, layers |-> rows]

RectA == RectForm(Num(15), Milli(7990), Num(4))
RectB == RectForm(Num(12), Milli(7990), Num(5))
RowA == Row("grade60", Milli(2890), Num(7), 0)

\* a rectangular section and the T-beam whose flange is the whole section:
\* bf = bw and hf = h
RectC == RectForm(Num(15), Milli(23990), Num(4))
TeeC == [RectC EXCEPT !.sectionType = "tbeam", !.hf = Milli(23990)]
RowC == Row("grade60", Milli(8670), Num(23), 0)

\* a singly reinforced rectangular beam: 12 x 24 in, fc = 6 ksi, 1.53 in^2 of
\* Grade 60 at depth 20 in
RectD == RectForm(Num(12), Num(24), Num(6))
RowD == Row("grade60", Milli(1530), Num(20), 0)

\* equilibrium at a trial depth: the loop leaves through the tolerance test
ConvergingCases == {
    Case(RectA, <<RowA>>),
    Case(RectA, <<Row("grade60", Num(2), Num(7), 0),
                  Row("grade60", Milli(890), Milli(6900), 0)>>),
    Case(RectB, <<Row("grade60", 13634, Num(7), 0)>>),
    Case(RectForm(Milli(13500), Milli(3850), Num(5)),
         <<Row("grade270", 425, Milli(3500), Num(170))>>),
    Case([RectB EXCEPT !.sectionType = "tbeam", !.bf = Num(24), !.bw = Num(10),
                       !.hf = Num(2)],
         <<Row("grade60", Milli(4250), Num(7), 0)>>),
    Case([RectB EXCEPT !.sectionType = "sandwich", !.bt = Num(12), !.ht = Num(2),
                       !.hg = Num(1), !.bb = Num(12), !.hb = Milli(4990)],
         <<Row("grade60", Milli(1870), Num(7), 0)>>),
    Case([RectB EXCEPT !.sectionType = "doubletee", !.bf = Num(24), !.hf = Num(2)],
         <<Row("grade60", Milli(4250), Num(7), 0)>>),
    Case(RectC, <<RowC>>),
    Case(TeeC, <<RowC>>),
    Case(RectD, <<RowD>>) }

\* valid input without an equilibrium depth in [0.01, h]: too much strand
\* (tension exceeds compression even at c = h) and too little steel
\* (compression exceeds tension even at c = 0.01)
UnbalancedCases == {
    Case(RectB, <<Row("grade270", Num(3), Num(7), Num(170))>>),
    Case(RectB, <<Row("grade60", Milli(1), Num(7), 0)>>) }

\* a numeric field left empty
EmptyFieldCases == {
    Case(RectA, <<[RowA EXCEPT !.area = EmptyText]>>),
    Case(RectA, <<[RowA EXCEPT !.depth = EmptyText]>>),
    Case([RectA EXCEPT !.h = EmptyText], <<RowA>>) }

\* input of the categories handleCalculate names
InvalidCases == {
    Case(RectA, <<>>),
    Case(RectA, <<[RowA EXCEPT !.depth = 0]>>),
    Case(RectA, <<[RowA EXCEPT !.depth = Num(8)]>>),
    Case(RectA, <<[RowA EXCEPT !.area = 0]>>),
    Case(RectA, <<RowA, [RowA EXCEPT !.area = 0 - Milli(2890)]>>),
    Case(RectA, <<RowA, [RowA EXCEPT !.depth = 0 - Num(1)]>>) }

FormCases == ConvergingCases \cup UnbalancedCases \cup EmptyFieldCases \cup InvalidCases

\* arguments of a call of analyzeBeam that does not come through the form
DirectCases == {
    Case(RectA, <<>>),
    Case(RectA, <<[RowA EXCEPT !.depth = Num(9)]>>),
    Case(RectA, <<[RowA EXCEPT !.area = 0 - Milli(2890)]>>) }

-----------------------------------------------------------------------------
(* Values held by the form.  An input's onChange stores the text of the     *)
(* field (e.target.value), defaults and derived values are numbers.  A text *)
(* is a sequence of characters: the digits 0..9, Dot, and Letter for any    *)
(* other character.  Numbers shown as text are never negative here.         *)

Dot == 10
Letter == 11

JNum(n) == [t |-> "number", v |-> n]
JStr(s) == [t |-> "string", v |-> s]

\* the decimal digits of the natural number n
RECURSIVE Digits(_)
Digits(n) == IF n < 10 THEN <<n>> ELSE Digits(n \div 10) \o <<n % 10>>

\* the digits of the fraction f (in units of 10 * unit), trailing zeros left out
RECURSIVE FractionDigits(_, _)
FractionDigits(f, unit) ==
    IF f = 0 THEN <<>>
    ELSE <<f \div unit>> \o FractionDigits(f % unit, unit \div 10)

\* String(n)
ToText(n) ==
    IF IsNaN(n) THEN <<Letter, Letter, Letter>>
    ELSE Digits(n \div Scale)
         \o (IF n % Scale = 0 THEN <<>>
             ELSE <<Dot>> \o FractionDigits(n % Scale, Scale \div 10))

\* the digits a text starts with
RECURSIVE LeadingDigits(_)
LeadingDigits(s) ==
    IF s = <<>> \/ Head(s) > 9 THEN <<>>
    ELSE <<Head(s)>> \o LeadingDigits(Tail(s))

\* the natural number written by the digits ds after those that gave acc
RECURSIVE NaturalOf(_, _)
NaturalOf(ds, acc) ==
    IF ds = <<>> THEN acc ELSE NaturalOf(Tail(ds), 10 * acc + Head(ds))

\* the fraction written by the digits ds, the first of them worth unit
RECURSIVE FractionOf(_, _)
FractionOf(ds, unit) ==
    IF ds = <<>> \/ unit = 0 THEN 0
    ELSE Head(ds) * unit + FractionOf(Tail(ds), unit \div 10)

\* the digits after the point that follows the leading digits of s
DecimalsOf(s) ==
    IF Len(s) > Len(LeadingDigits(s)) /\ s[Len(LeadingDigits(s)) + 1] = Dot
    THEN LeadingDigits(SubSeq(s, Len(LeadingDigits(s)) + 2, Len(s)))
    ELSE <<>>

\* parseFloat of a text: the number its longest numeric prefix writes
ParseText(s) ==
    IF LeadingDigits(s) = <<>> /\ DecimalsOf(s) = <<>> THEN NaN
    ELSE NaturalOf(LeadingDigits(s), 0) * Scale + FractionOf(DecimalsOf(s), Scale \div 10)

\* the text is a decimal number from end to end
IsDecimal(s) ==
    /\ LeadingDigits(s) # <<>> \/ DecimalsOf(s) # <<>>
    /\ Len(s) = Len(LeadingDigits(s))
                  + (IF Len(s) > Len(LeadingDigits(s)) THEN 1 + Len(DecimalsOf(s)) ELSE 0)

\* Number(x), the conversion * and / apply to an operand
NumberOf(x) ==
    IF x.t = "number" THEN x.v
    ELSE IF x.v = <<>> THEN 0
    ELSE IF IsDecimal(x.v) THEN ParseText(x.v)
    ELSE NaN

\* String(x), the conversion + applies next to a text
TextOf(x) == IF x.t = "string" THEN x.v ELSE ToText(x.v)

\* x + y: the sum of two numbers, else the two texts joined
Plus(x, y) ==
    IF x.t = "number" /\ y.t = "number" THEN JNum(Add(x.v, y.v))
    ELSE JStr(TextOf(x) \o TextOf(y))

\* x || y: y when x is 0, NaN or the empty text
OrDefault(x, y) ==
    IF x.t = "string" THEN (IF x.v = <<>> THEN y ELSE x)
    ELSE IF IsNaN(x.v) \/ x.v = 0 THEN y ELSE x

\* parseFloat(x) as a number value
ParseFloatOf(x) == IF x.t = "number" THEN x.v ELSE ParseText(x.v)

\* Math.round of a number that is not negative
Round(n) == IF IsNaN(n) THEN NaN ELSE ((n + (Scale \div 2)) \div Scale) * Scale

\* what handleSubmit reads in a field: the number held, or the number the
\* text held starts with, or EmptyText when it starts with none
FieldText(x) ==
    IF x.t = "number" THEN x.v
    ELSE IF IsNaN(ParseText(x.v)) THEN EmptyText
    ELSE ParseText(x.v)

-----------------------------------------------------------------------------
(* BeamInputForm: its state *)

DEFAULT_LAYER ==
    [steelPresetId |-> "grade270", area |-> JNum(Milli(153)), depth |-> JNum(Num(3)),
     fse |-> JNum(Num(170))]

\* useState(DEFAULT_SECTION): every field but sectionType holds a number
InitialSection ==
    [f \in DOMAIN DEFAULT_SECTION |->
        IF f = "sectionType" THEN DEFAULT_SECTION[f] ELSE JNum(DEFAULT_SECTION[f])]

\* the layer added with the id given
NewLayer(id) ==
    [id |-> id, steelPresetId |-> DEFAULT_LAYER.steelPresetId,
     area |-> DEFAULT_LAYER.area, depth |-> DEFAULT_LAYER.depth, fse |-> DEFAULT_LAYER.fse]

InitialForm ==
    [section |-> InitialSection, layers |-> <<NewLayer(1)>>, nextId |-> 2,
     shownNextId |-> 2]

-----------------------------------------------------------------------------
(* The state machine *)

Init ==
    /\ pc = "idle"
    /\ caller = "none"
    /\ sec = Null
    /\ layers = <<>>
    /\ cLow = 0
    /\ cHigh = 0
    /\ c = 0
    /\ iter = 0
    /\ converged = FALSE
    /\ ret = Null
    /\ results = Null
    /\ section = Null
    /\ error = Null
    /\ hadResult = FALSE
    /\ probe = Null
    /\ beamForm = InitialForm
    /\ submitted = Null

\* a search that starts from the depth 0: cLow = 0
EnterAnalyzeBeamFromZero(sect, steelLayers) ==
    /\ sec' = sect
    /\ layers' = steelLayers
    /\ cLow' = 0
    /\ cHigh' = sect.h
    /\ c' = Half(sect.h)
    /\ iter' = 0
    /\ converged' = FALSE
    /\ pc' = "loop"

\* analyzeBeam up to the loop: cLow = 0.01, cHigh = h, c = h / 2
EnterAnalyzeBeam(sect, steelLayers) ==
    /\ sec' = sect
    /\ layers' = steelLayers
    /\ cLow' = Milli(10)
    /\ cHigh' = sect.h
    /\ c' = Half(sect.h)
    /\ iter' = 0
    /\ converged' = FALSE
    /\ pc' = "loop"

\* The form is submitted: handleSubmit builds the section and the layers and
\* handleCalculate validates them; it either throws into its catch block or
\* calls analyzeBeam.
HandleSubmit(form) ==
    /\ pc = "idle"
    /\ LET sect == FinalSection(form.section)
           ls == FinalLayers(form.layers)
           e == ValidationError(sect, ls)
       IN /\ caller' = "app"
          /\ IF e # Null
             THEN /\ error' = CatchState(e[1]).error
                  /\ results' = CatchState(e[1]).results
                  /\ section' = CatchState(e[1]).section
                  /\ sec' = sect
                  /\ layers' = ls
                  /\ UNCHANGED <<pc, cLow, cHigh, c, iter, converged>>
             ELSE /\ EnterAnalyzeBeam(sect, ls)
                  /\ UNCHANGED <<error, results, section>>
          /\ hadResult' = (hadResult \/ (e # Null /\ results # Null))
    /\ ret' = Null
    /\ UNCHANGED <<probe, beamForm, submitted>>

\* analyzeBeam called with arguments nobody validated
CallAnalyzeBeam(args) ==
    /\ pc = "idle"
    /\ LET sect == FinalSection(args.section)
           ls == FinalLayers(args.layers)
       IN /\ caller' = "direct"
          /\ IF AnalyzeBeamThrows(sect, ls)
             THEN /\ sec' = sect
                  /\ layers' = ls
                  /\ UNCHANGED <<pc, cLow, cHigh, c, iter, converged>>
             ELSE EnterAnalyzeBeam(sect, ls)
    /\ ret' = Null
    /\ UNCHANGED <<results, section, error, hadResult, probe, beamForm, submitted>>

\* a pass that moves the wrong bound: cLow on a positive residual
BreakOrHalveSwapped(mid, residual) ==
    /\ c' = mid
    /\ IF WithinTolerance(residual)
       THEN /\ converged' = TRUE
            /\ pc' = "final"
            /\ UNCHANGED <<cLow, cHigh, iter>>
       ELSE /\ IF Gt(residual, 0)
               THEN cLow' = mid /\ UNCHANGED cHigh
               ELSE cHigh' = mid /\ UNCHANGED cLow
            /\ iter' = iter + 1
            /\ UNCHANGED <<converged, pc>>

\* the pass's break or its update of cLow or cHigh, for the trial depth mid
\* and its residual
BreakOrHalve(mid, residual) ==
    /\ c' = mid
    /\ IF WithinTolerance(residual)
       THEN /\ converged' = TRUE
            /\ pc' = "final"
            /\ UNCHANGED <<cLow, cHigh, iter>>
       ELSE /\ IF Gt(residual, 0)
               THEN cHigh' = mid /\ UNCHANGED cLow
               ELSE cLow' = mid /\ UNCHANGED cHigh
            /\ iter' = iter + 1
            /\ UNCHANGED <<converged, pc>>

\* one pass of the for-loop's body
BisectIter ==
    /\ pc = "loop"
    /\ LoopContinues(iter)
    /\ BreakOrHalve(Half(Add(cLow, cHigh)), Residual(sec, layers, Half(Add(cLow, cHigh))))
    /\ UNCHANGED <<caller, sec, layers, ret, results, section, error, hadResult, probe, beamForm, submitted>>

\* the for-loop's condition fails
LoopExhausted ==
    /\ pc = "loop"
    /\ ~LoopContinues(iter)
    /\ pc' = "final"
    /\ UNCHANGED <<caller, sec, layers, cLow, cHigh, c, iter, converged, ret,
                   results, section, error, hadResult, probe, beamForm, submitted>>

\* a return that stores each layer's strain, stress and force in the layer
\* records it was passed
ReturnWritingLayers(res) ==
    /\ pc = "final"
    /\ caller = "direct"
    /\ ret' = Some(res)
    /\ layers' = res.layerResults
    /\ pc' = "idle"
    /\ UNCHANGED <<caller, sec, cLow, cHigh, c, iter, converged,
                   results, section, error, hadResult, probe, beamForm, submitted>>

ReturnDirectWritesLayers == ReturnWritingLayers(AnalysisResult(sec, layers, c))

\* analyzeBeam returns to a caller other than the App
ReturnDirect ==
    /\ pc = "final"
    /\ caller = "direct"
    /\ ret' = Some(AnalysisResult(sec, layers, c))
    /\ pc' = "idle"
    /\ UNCHANGED <<caller, sec, layers, cLow, cHigh, c, iter, converged,
                   results, section, error, hadResult, probe, beamForm, submitted>>

\* the state handleCalculate leaves for the record res
Outcome(res) ==
    IF EquilibriumFails(res)
    THEN CatchState(Err("Solution did not converge. Check your inputs.", 0,
                        ToFixed3(EquilibriumError(res))))
    ELSE SuccessState(res, sec)

\* handleCalculate's steps after analyzeBeam has returned res
CheckAndPresent(res, next) ==
    /\ ret' = Some(res)
    /\ error' = next.error
    /\ results' = next.results
    /\ section' = next.section
    /\ hadResult' = (hadResult \/ results # Null)

\* analyzeBeam returns to handleCalculate, which checks the force balance
ReturnToApp ==
    /\ pc = "final"
    /\ caller = "app"
    /\ CheckAndPresent(AnalysisResult(sec, layers, c), Outcome(AnalysisResult(sec, layers, c)))
    /\ pc' = "idle"
    /\ UNCHANGED <<caller, sec, layers, cLow, cHigh, c, iter, converged, probe, beamForm, submitted>>

Next ==
    \/ \E form \in FormCases : HandleSubmit(form)
    \/ \E args \in DirectCases : CallAnalyzeBeam(args)
    \/ BisectIter
    \/ LoopExhausted
    \/ ReturnDirect
    \/ ReturnToApp

Spec == Init /\ [][Next]_vars

-----------------------------------------------------------------------------
(* The pure functions on their own: the function is applied once, to one   *)
(* input, and probe holds the input with the value returned.               *)

PresetIds == {steelPresets[i].id : i \in DOMAIN steelPresets}

\* the number of strain steps of 0.0005 on either side of 0
MaxStrainSteps == 30

\* strains from -0.015 to 0.015 in steps of 0.0005, and strains far beyond
\* rupture up to the one where Math.pow overflows
StressStrains ==
    {k * 5000 : k \in (0 - MaxStrainSteps)..MaxStrainSteps}
      \cup {s * k * (EScale \div 10) : s \in {0 - 1, 1}, k \in {1, 5, 28}}

ProbeStress(epsilonS, id) ==
    /\ pc = "idle"
    /\ probe = Null
    /\ probe' = Some([fn |-> "powerFormulaStress", steel |-> id, strain |-> epsilonS,
                      stress |-> powerFormulaStress(epsilonS, Preset(id))])
    /\ UNCHANGED <<pc, caller, sec, layers, cLow, cHigh, c, iter, converged, ret,
                   results, section, error, hadResult,
                   beamForm, submitted>>

NextStress == \E epsilonS \in StressStrains, id \in PresetIds : ProbeStress(epsilonS, id)

SpecStress == Init /\ [][NextStress]_vars

\* the yield strains fpy / Es of the catalog, and the default 0.002
YieldStrains ==
    {MulDiv(steelPresets[i].fpy, EScale, steelPresets[i].Es) : i \in DOMAIN steelPresets}
      \cup {2 * (EScale \div 1000)}

\* the number of strain steps of 0.0001 above the yield strain
MaxPhiSteps == 35

\* net tensile strains around the two limits, in steps of 0.0001
PhiOffsets == {k * 1000 : k \in (0 - 5)..MaxPhiSteps} \cup {0 - 1, 1, Strain003 - 1, Strain003 + 1}

ProbePhi(epsilonT, epsilonTy) ==
    /\ pc = "idle"
    /\ probe = Null
    /\ probe' = Some([fn |-> "phiFactor", epsilonT |-> epsilonT, epsilonTy |-> epsilonTy,
                      phi |-> phiFactor(epsilonT, epsilonTy)])
    /\ UNCHANGED <<pc, caller, sec, layers, cLow, cHigh, c, iter, converged, ret,
                   results, section, error, hadResult,
                   beamForm, submitted>>

NextPhi == \E epsilonTy \in YieldStrains, d \in PhiOffsets : ProbePhi(epsilonTy + d, epsilonTy)

SpecPhi == Init /\ [][NextPhi]_vars

-----------------------------------------------------------------------------
(* Properties *)

\* |r| < 1e-6 kip, r a force
BelowMicroKip(r) == ~IsNaN(r) /\ AbsI(r) * ((10 ^ 6) \div Scale) < 1

\* |Cc - sum of the layer forces| of a result record
Imbalance(res) ==
    LET d == Sub(res.Cc, SumForces(res.layerResults, 1))
    IN IF IsNaN(d) THEN NaN ELSE AbsI(d)

\* the layer list is empty, or a depth is not in (0, h], or an area is not positive
InvalidInput(sect, ls) ==
    \/ Len(ls) = 0
    \/ \E i \in DOMAIN ls :
          \/ ~(ls[i].depth # NaN /\ sect.h # NaN /\ ls[i].depth > 0 /\ ls[i].depth <= sect.h)
          \/ ~(ls[i].area # NaN /\ ls[i].area > 0)

\* analyzeBeam is running or has returned for the submitted form
AnalyzeInvokedByApp == caller = "app" /\ (pc \in {"loop", "final"} \/ ret # Null)

\* C1: when the bisection loop has ended, the residual at the returned c is
\* below 1e-6 kip or exactly 500 passes were executed, and the Cc and the
\* layer forces of the returned record are the ones evaluated at that c.
C1_LoopEndAndResultAtC ==
    /\ pc = "final" =>
          (BelowMicroKip(Residual(sec, layers, c)) \/ iter = 500)
    /\ (pc = "idle" /\ ret # Null) =>
          /\ ret[1].c = c
          /\ ret[1].Cc = concreteCompression(sec.fc, Mul(beta1(sec.fc), c),
                                             sec.bf, sec.bw, sec.hf, sec)
          /\ Len(ret[1].layerResults) = Len(layers)
          /\ \A i \in DOMAIN layers :
                ret[1].layerResults[i].force = LayerForce(layers[i], c).force
          /\ (BelowMicroKip(Imbalance(ret[1])) \/ iter = 500)

\* a record returned after the loop left through the tolerance test on a
\* later pass than the first
C1_Witness ==
    /\ pc = "idle" /\ ret # Null /\ converged /\ iter > 0
    /\ BelowMicroKip(Imbalance(ret[1]))

\* C2: handleCalculate never presents a result whose force imbalance exceeds
\* 0.1 kip; for every such record analyzeBeam returns it sets the "did not
\* converge" message and leaves results and section null.
C2_NoUnbalancedResultPresented ==
    /\ results # Null => ~Gt(Imbalance(results[1]), Milli(100))
    /\ (caller = "app" /\ pc = "idle" /\ ret # Null /\ Gt(Imbalance(ret[1]), Milli(100))) =>
          /\ error # Null
          /\ error[1].msg = "Solution did not converge. Check your inputs."
          /\ results = Null
          /\ section = Null

\* analyzeBeam has returned a record 0.348 kip out of balance to handleCalculate
C2_Witness ==
    /\ caller = "app" /\ pc = "idle" /\ ret # Null
    /\ Gt(Imbalance(ret[1]), Milli(100)) /\ Lt(Imbalance(ret[1]), Num(1))
    /\ error # Null /\ results = Null

\* C3: handleCalculate rejects the submitted input before analyzeBeam is
\* invoked when the layer list is empty, a depth lies outside (0, h] or an
\* area is not positive; an error message is then set and no result stored.
C3_InvalidInputRejected ==
    /\ AnalyzeInvokedByApp => ~InvalidInput(sec, layers)
    /\ (caller = "app" /\ pc = "idle" /\ InvalidInput(sec, layers)) =>
          (error # Null /\ results = Null)

\* C4 as stated: analyzeBeam called with input of these categories fails and
\* returns no record.
C4_AnalyzeFailsOnInvalidInput ==
    (caller = "direct" /\ InvalidInput(sec, layers)) => (pc = "idle" /\ ret = Null)

\* C4: analyzeBeam called with an empty layer list, a depth outside (0, h] or
\* a non-positive area raises no failure: it enters the bisection loop and
\* returns a result record with one layer result per layer.
C4_AnalyzeReturnsRecordOnInvalidInput ==
    (caller = "direct" /\ InvalidInput(sec, layers)) =>
        /\ pc \in {"loop", "final"} \/ ret # Null
        /\ ret # Null => Len(ret[1].layerResults) = Len(layers)

\* analyzeBeam has returned a record for an empty layer list
C4_Witness == caller = "direct" /\ pc = "idle" /\ ret # Null /\ Len(layers) = 0

\* C5: results and section are both null or both set from the same
\* successful call, and whenever error is non-null both are null, also after
\* an earlier call presented a result.
C5_ResultsSectionErrorConsistent ==
    /\ (results = Null) <=> (section = Null)
    /\ results # Null => results[1].section = section[1]
    /\ error # Null => (results = Null /\ section = Null)

\* a failed calculation after one that presented a result
C5_Witness == hadResult /\ error # Null /\ results = Null /\ section = Null /\ pc = "idle"

\* C6: the bisection loop ends after at most 500 passes: the pass counter
\* never exceeds 500, every pass either leaves the loop or adds one to the
\* counter, and at 500 the loop is left; this includes residuals that never
\* change sign and residuals that are not a number.
C6_LoopEndsWithin500 ==
    /\ [](iter <= 500)
    /\ [][pc = "loop" =>
            \/ pc' = "final"
            \/ iter < 500 /\ pc' = "loop" /\ iter' = iter + 1]_vars

\* the loop has ended after 500 passes whose residuals were not a number
C6_Witness == pc = "final" /\ iter = 500 /\ IsNaN(Residual(sec, layers, c))

\* section dimensions positive, a layer, every area > 0 and 0 < depth <= h
ValidInput(sect, ls) ==
    /\ ~InvalidInput(sect, ls)
    /\ \A x \in {sect.h, sect.bw, sect.bf, sect.fc} : x # NaN /\ x > 0

\* C7 as stated: for valid input the loop leaves through the tolerance test
\* before the cap of 500 passes.
C7_ValidInputConverges ==
    (pc = "final" /\ ValidInput(sec, layers)) => (converged /\ iter < 500)

\* C7: for valid input the loop leaves through the tolerance test, before the
\* cap, exactly when a trial depth has |residual| < 1e-6; when the residual
\* has one sign at every trial depth it runs all 500 passes, an end of the
\* search interval is still at its start value (0.01 or h), and the returned
\* c is out of balance.
C7_ValidInputConvergesOrExhausts ==
    (pc = "final" /\ ValidInput(sec, layers)) =>
        LET r == Residual(sec, layers, c)
        IN \/ converged /\ iter < 500 /\ BelowMicroKip(r)
           \/ /\ ~converged /\ iter = 500 /\ ~BelowMicroKip(r)
              /\ \/ Gt(r, 0) /\ cLow = Milli(10)
                 \/ Lt(r, 0) /\ cHigh = sec.h

\* valid input whose tension exceeds the compression at every depth up to h
C7_Witness ==
    /\ pc = "final" /\ ValidInput(sec, layers) /\ ~converged /\ iter = 500
    /\ cHigh = sec.h /\ Lt(Residual(sec, layers, c), 0)

C9_DuctilityFlagsPartition ==
    ret # Null =>
        LET res == ret[1]
            eT == res.epsilonT
            eTy == EpsilonTy(res.layerResults)
            num == eT # NaN /\ eTy # NaN
        IN /\ res.ductile <=> (num /\ eT >= eTy + Strain003)
           /\ res.transition <=> (num /\ eTy <= eT /\ eT < eTy + Strain003)
           /\ ~(res.ductile /\ res.transition)
           /\ (~res.ductile /\ ~res.transition) <=> (num /\ eT < eTy)
           /\ (res.phi = Milli(900)) <=> res.ductile

\* C10: phiFactor is 0.65 for epsilonT <= epsilonTy, 0.90 for epsilonT >=
\* epsilonTy + 0.003 and 0.65 + 0.25 (epsilonT - epsilonTy) / 0.003 in
\* between; it has no jump at either limit, does not decrease in epsilonT and
\* lies in [0.65, 0.90].
C10_PhiPiecewiseLinear ==
    (probe # Null /\ probe[1].fn = "phiFactor") =>
        LET eT == probe[1].epsilonT
            eTy == probe[1].epsilonTy
            phi == probe[1].phi
            \* 0.003 * (phi - 0.65) against 0.25 * (epsilonT - epsilonTy)
            lhs == Strain003 * (phi - Milli(650))
            rhs == Milli(250) * (eT - eTy)
            next == phiFactor(eT + 1, eTy)
        IN /\ eT <= eTy => phi = Milli(650)
           /\ eT >= eTy + Strain003 => phi = Milli(900)
           /\ (eTy < eT /\ eT < eTy + Strain003) => (lhs <= rhs /\ rhs < lhs + Strain003)
           /\ Milli(650) <= phi /\ phi <= Milli(900)
           /\ phi <= next /\ next <= phi + 1

\* a strain strictly between the limits, with phi strictly between 0.65 and 0.90
C10_Witness ==
    /\ probe # Null /\ probe[1].fn = "phiFactor"
    /\ probe[1].epsilonTy < probe[1].epsilonT
    /\ probe[1].epsilonT < probe[1].epsilonTy + Strain003
    /\ Milli(650) < probe[1].phi /\ probe[1].phi < Milli(900)

-----------------------------------------------------------------------------
(* beta1 on its own *)

\* the number of steps of 0.05 ksi from fc = 0
MaxFcSteps == 240

\* concrete strengths from 0 to 12 ksi in steps of 0.05, and one unit either
\* side of the two limits
FcValues ==
    {k * 500 : k \in 0..MaxFcSteps}
      \cup {Num(4) - 1, Num(4) + 1, Num(8) - 1, Num(8) + 1}

ProbeBeta1(fc) ==
    /\ pc = "idle"
    /\ probe = Null
    /\ probe' = Some([fn |-> "beta1", fc |-> fc, beta1 |-> beta1(fc)])
    /\ UNCHANGED <<pc, caller, sec, layers, cLow, cHigh, c, iter, converged, ret,
                   results, section, error, hadResult,
                   beamForm, submitted>>

NextBeta1 == \E fc \in FcValues : ProbeBeta1(fc)

SpecBeta1 == Init /\ [][NextBeta1]_vars

\* C11: beta1 is 0.85 for fc <= 4, 0.65 for fc >= 8 and 0.85 - 0.05 (fc - 4)
\* in between, so 0.85 at 4, 0.75 at 6 and 0.65 at 8; it has no jump at 4 or
\* at 8, does not increase in fc and lies in [0.65, 0.85].
C11_Beta1PiecewiseLinear ==
    (probe # Null /\ probe[1].fn = "beta1") =>
        LET fc == probe[1].fc
            b == probe[1].beta1
            \* 0.85 - b against 0.05 * (fc - 4), both times Scale
            lhs == Scale * (Milli(850) - b)
            rhs == Milli(50) * (fc - Num(4))
            next == beta1(fc + 1)
        IN /\ fc <= Num(4) => b = Milli(850)
           /\ fc >= Num(8) => b = Milli(650)
           /\ (Num(4) < fc /\ fc < Num(8)) => (lhs <= rhs /\ rhs < lhs + Scale)
           /\ fc = Num(6) => b = Milli(750)
           /\ Milli(650) <= b /\ b <= Milli(850)
           /\ next <= b /\ b <= next + 1

\* beta1 of 6 ksi, strictly between the two limits
C11_Witness ==
    /\ probe # Null /\ probe[1].fn = "beta1"
    /\ probe[1].fc = Num(6) /\ probe[1].beta1 = Milli(750)

-----------------------------------------------------------------------------
(* A T-beam whose flange is the whole section, against the rectangle *)

\* the layers as they were passed in, read back from the layer results
LayerInputs(res) ==
    [i \in DOMAIN res.layerResults |->
        [area |-> res.layerResults[i].area, depth |-> res.layerResults[i].depth,
         fse |-> res.layerResults[i].fse, steel |-> res.layerResults[i].steel]]

\* r is the result for a rectangular section and t the result for the
\* T-beam with bf = bw, hf = h and the same bw, h, fc and layers
FlangeOnlyTwin(r, t) ==
    /\ r.section.sectionType = "rectangular"
    /\ t.section.sectionType = "tbeam"
    /\ t.section.bf = t.section.bw
    /\ t.section.hf = t.section.h
    /\ t.section.bw = r.section.bw
    /\ t.section.h = r.section.h
    /\ t.section.fc = r.section.fc
    /\ LayerInputs(t) = LayerInputs(r)

\* the flexural part of two results is the same
SameFlexure(r, t) ==
    /\ t.Cc = r.Cc
    /\ t.ccCentroid = r.ccCentroid
    /\ t.c = r.c
    /\ t.a = r.a
    /\ t.Mn = r.Mn
    /\ t.phi = r.phi
    /\ t.phiMn = r.phiMn
    /\ t.layerResults = r.layerResults

\* x and y differ by no more than the last digit kept, relative to their size
WithinRounding(x, y) ==
    /\ ~IsNaN(x)
    /\ ~IsNaN(y)
    /\ AbsI(x - y) <= (AbsI(x) \div Scale) + 1

\* the cracking records agree: the area and what does not depend on the
\* centroid exactly, what is computed from the centroid up to rounding
CrackingWithinRounding(rc, tc) ==
    /\ tc.sectionProps.A = rc.sectionProps.A
    /\ tc.P = rc.P
    /\ tc.fpc = rc.fpc
    /\ tc.fr = rc.fr
    /\ tc.passesMinStrength = rc.passesMinStrength
    /\ WithinRounding(rc.sectionProps.yCg, tc.sectionProps.yCg)
    /\ WithinRounding(rc.sectionProps.Ig, tc.sectionProps.Ig)
    /\ WithinRounding(rc.sectionProps.Sb, tc.sectionProps.Sb)
    /\ WithinRounding(rc.e, tc.e)
    /\ WithinRounding(rc.Mcr, tc.Mcr)

\* analyzeBeam returns in this step while an earlier result is on display
ReturnsNextToResult == results # Null /\ ret = Null /\ ret' # Null

\* C12, as amended: when analyzeBeam returns for a T-beam with bf = bw and
\* hf = h while the result of the rectangular section with the same bw, h, fc
\* and layers is on display (or the other way round), the two results have
\* the same Cc, ccCentroid, c, a, Mn, phi, phiMn, layer results and gross
\* area A, and the same cracking result up to the rounding of the centroid:
\* yCg, Ig, Sb, e and Mcr agree to the last digit kept.
C12_FlangeOnlyTeeMatchesRectangle ==
    [][ReturnsNextToResult =>
          /\ FlangeOnlyTwin(results[1], ret'[1]) =>
                /\ SameFlexure(results[1], ret'[1])
                /\ CrackingWithinRounding(results[1].cracking, ret'[1].cracking)
          /\ FlangeOnlyTwin(ret'[1], results[1]) =>
                /\ SameFlexure(ret'[1], results[1])
                /\ CrackingWithinRounding(ret'[1].cracking, results[1].cracking)]_vars

\* C12 as stated: the two results have the same cracking record, gross
\* section properties included, digit for digit
C12_FlangeOnlyTeeIdentical ==
    [][ReturnsNextToResult =>
          /\ FlangeOnlyTwin(results[1], ret'[1]) =>
                /\ SameFlexure(results[1], ret'[1])
                /\ ret'[1].cracking = results[1].cracking
          /\ FlangeOnlyTwin(ret'[1], results[1]) =>
                /\ SameFlexure(ret'[1], results[1])
                /\ ret'[1].cracking = results[1].cracking]_vars

\* the rectangle's result is on display and analyzeBeam has converged for
\* its T-beam twin
C12_Witness ==
    /\ pc = "final"
    /\ caller = "app"
    /\ converged
    /\ results # Null
    /\ FlangeOnlyTwin(results[1], AnalysisResult(sec, layers, c))


-----------------------------------------------------------------------------
(* The cracking check of hollow-core sections on its own *)

\* the largest number of voids the form's field takes
MaxVoids == 10

\* the form after the section type is set to hollow core: bw = bf, hf = h
HollowForm(bf, h, numVoids, voidDiameter, voidCenterDepth) ==
    [DEFAULT_SECTION EXCEPT !.sectionType = "hollowcore", !.bf = bf, !.bw = bf,
                            !.h = h, !.hf = h, !.numVoids = numVoids,
                            !.voidDiameter = voidDiameter,
                            !.voidCenterDepth = voidCenterDepth]

\* slabs 16 to 48 in wide and 6 or 8 in deep with 1 to MaxVoids voids of 2 to
\* 6 in across, centred at mid-depth as the form sets them when h is edited
HollowForms ==
    {HollowForm(Num(bf), Num(h), Num(n), Num(d), Half(Num(h))) :
        bf \in {16, 24, 48}, h \in {6, 8}, n \in 1..MaxVoids, d \in 2..6}

\* one strand layer near the bottom of the slab
StrandRows == <<Row("grade270", Milli(612), Num(5), Num(170))>>

\* numVoids * Math.PI * r * r
VoidArea(sect) ==
    Mul(Mul(Mul(sect.numVoids, Pi), Half(sect.voidDiameter)), Half(sect.voidDiameter))

ProbeCracking(form, phiMn) ==
    /\ probe = Null
    /\ probe' = Some([fn |-> "prestressAndCracking", sect |-> FinalSection(form),
                      phiMn |-> phiMn,
                      cracking |-> prestressAndCracking(FinalSection(form),
                                                        FinalLayers(StrandRows), phiMn)])
    /\ UNCHANGED <<pc, caller, sec, layers, cLow, cHigh, c, iter, converged, ret,
                   results, section, error, hadResult,
                   beamForm, submitted>>

NextCracking == \E form \in HollowForms, phiMn \in {Num(100), Num(400)} : ProbeCracking(form, phiMn)

SpecCracking == Init /\ [][NextCracking]_vars

\* the voids of the section take up the whole solid rectangle or more
VoidsFillSection(sect) ==
    /\ sect.sectionType = "hollowcore"
    /\ Ge(VoidArea(sect), Mul(sect.bf, sect.h))

\* C13: for a hollow-core section whose void area is at least bf * h, the
\* gross properties the cracking check uses have a positive area A and a
\* precompression P / A that is a number and not negative.
C13_VoidsNeverExhaustArea ==
    (probe # Null /\ probe[1].fn = "prestressAndCracking"
        /\ VoidsFillSection(probe[1].sect))
    => /\ Gt(probe[1].cracking.sectionProps.A, 0)
       /\ Ge(probe[1].cracking.fpc, 0)


-----------------------------------------------------------------------------
(* Repeated calls *)

\* two results come from the same section and the same layers
SameInputs(r, t) == t.section = r.section /\ LayerInputs(t) = LayerInputs(r)

\* C14: analyzeBeam keeps nothing between calls.  When it returns for the
\* section and layers of the result on display, whatever calls on other
\* inputs were made in between and whoever calls, the record returned is
\* equal to the one on display in every field.
C14_SameInputsSameResult ==
    [][(ReturnsNextToResult /\ SameInputs(results[1], ret'[1]))
          => ret'[1] = results[1]]_vars

\* a result is on display and analyzeBeam has finished its loop for the
\* same section and layers again, after a loop that took several passes
C14_Witness ==
    /\ pc = "final"
    /\ results # Null
    /\ iter > 0
    /\ SameInputs(results[1], AnalysisResult(sec, layers, c))


-----------------------------------------------------------------------------
(* The arguments after the call *)

\* the fields of a layer as handleSubmit builds it
LayerFields == {"area", "depth", "fse", "steel", "name"}

\* every layer is as handleSubmit built it: no field added, its steel type
\* equal to the catalog's entry
LayersAsPassed(ls) ==
    \A i \in DOMAIN ls :
        /\ DOMAIN ls[i] = LayerFields
        /\ ls[i].steel = Preset(ls[i].steel.id)

\* the strain, stress and force stand in the records of the result, one for
\* each layer and each repeating its layer's fields
WrittenToResult(res, ls) ==
    /\ DOMAIN res.layerResults = DOMAIN ls
    /\ \A i \in DOMAIN ls :
          /\ DOMAIN res.layerResults[i] = LayerFields \cup {"strain", "stress", "force"}
          /\ \A f \in LayerFields : res.layerResults[i][f] = ls[i][f]

\* C15: from the call of analyzeBeam to its return, cracking check included,
\* the section record and the layer list stay as they were passed, no layer
\* record gains a field and every steel type keeps the catalog's values;
\* the strains, stresses and forces are in the layer-result records of the
\* record returned.
C15_ArgumentsUnchanged ==
    [][pc # "idle" =>
          /\ sec' = sec
          /\ layers' = layers
          /\ LayersAsPassed(layers')
          /\ ret' # Null => /\ ret'[1].section = sec
                            /\ ret'[1].cracking.sectionProps = grossSectionProperties(sec)
                            /\ WrittenToResult(ret'[1], layers)]_vars

\* analyzeBeam has returned a record with a strained layer to a caller, and
\* the layers it was passed are as they were
C15_Witness ==
    /\ pc = "idle"
    /\ ret # Null
    /\ Len(layers) > 0
    /\ LayersAsPassed(layers)
    /\ WrittenToResult(ret[1], layers)
    /\ Gt(ret[1].layerResults[1].strain, 0)
    /\ Gt(ret[1].layerResults[1].force, 0)


-----------------------------------------------------------------------------
(* The power formula as a function of the strain *)

\* C16: for every strain x and every steel of the catalog the stress at -x is
\* the negative of the stress at x, a strain that is not negative gives a
\* stress that is not negative, and the stress at the strain 0, the one
\* strain of the model below 1e-12 in magnitude, is exactly 0.
C16_StressOddInStrain ==
    (probe # Null /\ probe[1].fn = "powerFormulaStress") =>
        /\ powerFormulaStress(Neg(probe[1].strain), Preset(probe[1].steel))
              = Neg(probe[1].stress)
        /\ probe[1].strain >= 0 => probe[1].stress >= 0
        /\ probe[1].strain <= 0 => probe[1].stress <= 0
        /\ probe[1].strain = 0 => probe[1].stress = 0

\* a compressive strain in the elastic range, with its compressive stress
C16_Witness ==
    /\ probe # Null /\ probe[1].fn = "powerFormulaStress"
    /\ probe[1].strain = 0 - 10000
    /\ probe[1].stress < 0
    /\ probe[1].stress = 0 - powerFormulaStress(10000, Preset(probe[1].steel))


\* C17: for every steel of the catalog (R > 0 and 0 <= Q < 1) the stress does
\* not decrease as the strain grows from 0: no larger strain has a smaller
\* stress, the strain 0 of the guard and the strains at the cap included.
C17_StressNonDecreasing ==
    (probe # Null /\ probe[1].fn = "powerFormulaStress" /\ probe[1].strain >= 0) =>
        /\ Gt(Preset(probe[1].steel).R, 0)
        /\ Ge(Preset(probe[1].steel).Q, 0) /\ Lt(Preset(probe[1].steel).Q, Num(1))
        /\ \A x \in StressStrains : x >= probe[1].strain =>
              powerFormulaStress(x, Preset(probe[1].steel)) >= probe[1].stress


-----------------------------------------------------------------------------
(* The singly reinforced rectangular beam *)

\* analyzeBeam has returned for the section 12 x 24 in, fc = 6 ksi, with one
\* Grade 60 layer of 1.53 in^2 at depth 20 in, fse = 0
SinglyReinforcedReturned ==
    /\ ret # Null
    /\ ret[1].section = FinalSection(RectD)
    /\ LayerInputs(ret[1]) = LayerInputs([layerResults |-> FinalLayers(<<RowD>>)])

\* C19, as amended: for that beam the loop converges to the depth c = 2.0 in
\* (within one unit of the last digit kept), where 0.85 * fc * beta1 * c * bw
\* equals the 91.8 kips of the steel, with beta1 = 0.75 and a = beta1 * c = 1.5;
\* epsilonT exceeds epsilonTy + 0.003, phi is 0.90 and phiMn is positive.
C19_SinglyReinforcedBeam ==
    SinglyReinforcedReturned =>
        /\ converged /\ iter < maxIter
        /\ ret[1].c = c
        /\ AbsI(ret[1].c - Num(2)) <= 1
        /\ ret[1].beta1 = Milli(750)
        /\ ret[1].a = Mul(ret[1].beta1, ret[1].c)
        /\ ret[1].a = Milli(1500)
        /\ Gt(ret[1].epsilonT, Add(EpsilonTy(ret[1].layerResults), Strain003))
        /\ ret[1].phi = Milli(900)
        /\ Gt(ret[1].phiMn, 0)

\* C19 as stated: c between 2 and 4 in with beta1 = 0.70
C19_SinglyReinforcedBeamBeta070 ==
    SinglyReinforcedReturned =>
        /\ converged
        /\ Ge(ret[1].c, Num(2)) /\ Le(ret[1].c, Num(4))
        /\ ret[1].beta1 = Milli(700)
        /\ ret[1].a = Mul(ret[1].beta1, ret[1].c)
        /\ Gt(ret[1].epsilonT, Add(EpsilonTy(ret[1].layerResults), Strain003))
        /\ ret[1].phi = Milli(900)
        /\ Gt(ret[1].phiMn, 0)

\* the beam's result is on display
C19_Witness ==
    /\ SinglyReinforcedReturned
    /\ pc = "idle"
    /\ caller = "app"
    /\ results = ret
    /\ error = Null


-----------------------------------------------------------------------------
(* The search interval *)

\* 0.01 <= lo <= cNA <= hi <= h
Bracketed(lo, cNA, hi, h) ==
    /\ Le(Milli(10), lo)
    /\ Le(lo, cNA)
    /\ Le(cNA, hi)
    /\ Le(hi, h)

\* 0 < a <= h for a = beta1 * cNA
BlockWithinSection(sect, cNA) ==
    /\ Gt(Mul(beta1(sect.fc), cNA), 0)
    /\ Le(Mul(beta1(sect.fc), cNA), sect.h)

-----------------------------------------------------------------------------
(* One pass of the bisection *)

\* this step is a pass of the loop that does not meet the tolerance
PassWithoutBreak == pc = "loop" /\ LoopContinues(iter) /\ ~converged'

\* the width of the interval after the pass is half the width before it, to
\* the last digit kept (half of a width that is NaN is NaN)
WidthHalved ==
    IF IsNaN(Sub(cHigh, cLow)) THEN IsNaN(Sub(cHigh', cLow'))
    ELSE /\ ~IsNaN(Sub(cHigh', cLow'))
         /\ AbsI(2 * Sub(cHigh', cLow') - Sub(cHigh, cLow)) <= 1

\* the pass assigns the trial depth to one bound and leaves the other: to
\* cHigh when the residual is positive, to cLow when it is negative
OneBoundMoved(residual) ==
    /\ \/ cHigh' = c' /\ cLow' = cLow
       \/ cLow' = c' /\ cHigh' = cHigh
    /\ Gt(residual, 0) => (cHigh' = c' /\ cLow' = cLow)
    /\ Lt(residual, 0) => (cLow' = c' /\ cHigh' = cHigh)

-----------------------------------------------------------------------------
(* The residual as a function of the depth *)

\* the number of whole inches among the trial depths
MaxDepthSteps == 24

\* trial depths: close to cLow = 0.01, and every inch up to MaxDepthSteps
TrialDepths ==
    {Milli(10), Milli(20), Milli(30), Milli(50), Milli(100), Milli(500)}
      \cup {Num(k) : k \in 1..MaxDepthSteps}

\* the inputs of the form with positive areas and depths within the section
BalanceCases == ConvergingCases \cup UnbalancedCases

\* b1 * c, Cc, totalSteelForce and residual of one pass at the depth cNA
PassForces(sect, steelLayers, cNA) ==
    [Cc |-> concreteCompression(sect.fc, Mul(beta1(sect.fc), cNA),
                                sect.bf, sect.bw, sect.hf, sect),
     steel |-> TotalSteelForce(steelLayers, cNA, 1),
     residual |-> Residual(sect, steelLayers, cNA)]

ProbeResidual(sect, steelLayers, cNA) ==
    /\ probe = Null
    /\ Le(cNA, sect.h)
    /\ probe' = Some([fn |-> "residual", sect |-> sect, layers |-> steelLayers,
                      c |-> cNA, at |-> PassForces(sect, steelLayers, cNA)])
    /\ UNCHANGED <<pc, caller, sec, layers, cLow, cHigh, c, iter, converged, ret,
                   results, section, error, hadResult,
                   beamForm, submitted>>

NextResidual ==
    \E form \in BalanceCases, cNA \in TrialDepths :
        ProbeResidual(FinalSection(form.section), FinalLayers(form.layers), cNA)

SpecResidual == Init /\ [][NextResidual]_vars

\* the forces at the depth cNA are not on the wrong side of the forces f at a
\* smaller depth
NotBelow(f, g) ==
    /\ Ge(g.Cc, f.Cc)
    /\ Le(g.steel, f.steel)
    /\ Ge(g.residual, f.residual)

\* C22: for every section and every layer list with positive areas, between
\* two depths of [0.01, h] the larger one has the larger or equal Cc, the
\* smaller or equal total steel force and the larger or equal residual.
C22_ResidualNonDecreasing ==
    (probe # Null /\ probe[1].fn = "residual") =>
        \A cNA \in TrialDepths :
            (Ge(cNA, probe[1].c) /\ Le(cNA, probe[1].sect.h)) =>
                NotBelow(probe[1].at, PassForces(probe[1].sect, probe[1].layers, cNA))


-----------------------------------------------------------------------------
(* The stress block at the geometric transition depths *)

\* the step between the depths compared on either side of a transition
BlockDelta == Milli(1)

\* Cc and ccCentroid as analyzeBeam takes them for a block of depth a
Block(sect, a) ==
    [Cc |-> concreteCompression(sect.fc, a, sect.bf, sect.bw, sect.hf, sect),
     ccCentroid |-> compressionCentroid(a, sect.bf, sect.bw, sect.hf, sect)]

\* flanged, sandwich and hollow-core sections whose voids lie inside the slab
TransitionForms ==
    { [RectB EXCEPT !.sectionType = "tbeam", !.bf = Num(bf), !.bw = Num(10),
                    !.hf = Num(hf)] : bf \in {16, 24}, hf \in {2, 3} }
    \cup { [RectB EXCEPT !.sectionType = "doubletee", !.bf = Num(bf),
                         !.hf = Num(hf)] : bf \in {24, 48}, hf \in {2, 3} }
    \cup { [RectB EXCEPT !.sectionType = "sandwich", !.bt = Num(bt), !.ht = Num(ht),
                         !.hg = Num(hg), !.bb = Num(12), !.hb = Num(3)] :
             bt \in {12, 16}, ht \in {2, 3}, hg \in {1, 2} }
    \cup { f \in HollowForms : /\ Le(f.voidDiameter, f.h)
                               /\ Le(Mul(f.numVoids, f.voidDiameter), f.bf) }

\* the depths at which the block of the section changes branch
TransitionDepths(sect) ==
    IF sect.sectionType = "sandwich" THEN {sect.ht, Add(sect.ht, sect.hg)}
    ELSE IF sect.sectionType = "hollowcore"
    THEN {Sub(sect.voidCenterDepth, Half(sect.voidDiameter)),
          Add(sect.voidCenterDepth, Half(sect.voidDiameter))}
    ELSE {sect.hf}

\* depths inside the gap of a sandwich section, its lower face included
GapDepths(sect) ==
    IF sect.sectionType = "sandwich"
    THEN {Add(sect.ht, BlockDelta), Add(sect.ht, Half(sect.hg)), Add(sect.ht, sect.hg)}
    ELSE {}

\* the block just above, at and just below the transition depth t
ProbeTransition(sect, t) ==
    /\ probe = Null
    /\ Gt(Sub(t, BlockDelta), 0)
    /\ Le(Add(t, BlockDelta), sect.h)
    /\ probe' = Some([fn |-> "transition", sect |-> sect, at |-> t,
                      before |-> Block(sect, Sub(t, BlockDelta)),
                      tie |-> Block(sect, t),
                      after |-> Block(sect, Add(t, BlockDelta))])
    /\ UNCHANGED <<pc, caller, sec, layers, cLow, cHigh, c, iter, converged, ret,
                   results, section, error, hadResult,
                   beamForm, submitted>>

\* the block of depth a inside the gap
ProbeGap(sect, a) ==
    /\ probe = Null
    /\ probe' = Some([fn |-> "gap", sect |-> sect, at |-> a, tie |-> Block(sect, a)])
    /\ UNCHANGED <<pc, caller, sec, layers, cLow, cHigh, c, iter, converged, ret,
                   results, section, error, hadResult,
                   beamForm, submitted>>

NextBlock ==
    \/ /\ probe = Null
       /\ \E form \in TransitionForms :
            \E t \in TransitionDepths(FinalSection(form)) :
               ProbeTransition(FinalSection(form), t)
    \/ /\ probe = Null
       /\ \E form \in TransitionForms :
            \E a \in GapDepths(FinalSection(form)) : ProbeGap(FinalSection(form), a)

SpecBlock == Init /\ [][NextBlock]_vars

\* the widest part of the section
WidestPart(sect) ==
    IF sect.sectionType = "sandwich"
    THEN IF Gt(sect.bb, sect.bt) THEN sect.bb ELSE sect.bt
    ELSE IF Gt(sect.bw, sect.bf) THEN sect.bw ELSE sect.bf

\* the force changes over BlockDelta by no more than twice what a full-width
\* strip of that depth carries, and the centroid by no more than ten times
\* BlockDelta
SmallStep(sect, p, q) ==
    /\ ~IsNaN(p.Cc) /\ ~IsNaN(q.Cc)
    /\ ~IsNaN(p.ccCentroid) /\ ~IsNaN(q.ccCentroid)
    /\ AbsI(p.Cc - q.Cc)
         <= 2 * Mul(Mul(Milli(850), sect.fc), Mul(WidestPart(sect), BlockDelta))
    /\ AbsI(p.ccCentroid - q.ccCentroid) <= 10 * BlockDelta

\* C23: at every transition depth (a = hf of a T-beam or double-tee, a = ht
\* and a = ht + hg of a sandwich section, the void top and the void bottom of
\* a hollow-core section) the force and the centroid of the stress block pass
\* without a jump from the branch before to the value at the tie and on to
\* the branch after, and inside the gap of a sandwich section the force is
\* 0.85 * fc * ht * bt and the centroid is ht / 2.
C23_ContinuousAtTransitions ==
    /\ (probe # Null /\ probe[1].fn = "transition")
         => /\ SmallStep(probe[1].sect, probe[1].before, probe[1].tie)
            /\ SmallStep(probe[1].sect, probe[1].tie, probe[1].after)
    /\ (probe # Null /\ probe[1].fn = "gap")
         => /\ probe[1].tie.Cc
                 = Mul(Mul(Mul(Milli(850), probe[1].sect.fc), probe[1].sect.ht),
                       probe[1].sect.bt)
            /\ probe[1].tie.ccCentroid = Half(probe[1].sect.ht)


-----------------------------------------------------------------------------
(* The extreme tension layer *)

\* ResultsPanel and DesignGauges: let ext = layerResults[0]; for each lr,
\* if (lr.depth > ext.depth) ext = lr.  The index of ext, 0 for undefined.
RECURSIVE ExtremeLayerFrom(_, _, _)
ExtremeLayerFrom(lrs, i, ext) ==
    IF i > Len(lrs) THEN ext
    ELSE IF Gt(lrs[i].depth, lrs[ext].depth)
         THEN ExtremeLayerFrom(lrs, i + 1, i)
         ELSE ExtremeLayerFrom(lrs, i + 1, ext)

ExtremeLayer(lrs) == IF Len(lrs) = 0 THEN 0 ELSE ExtremeLayerFrom(lrs, 1, 1)

\* etl ? etl.steel.fpy / etl.steel.Es : 0.002 of the two components
PanelEpsilonTy(lrs) ==
    IF ExtremeLayer(lrs) = 0 THEN 2 * (EScale \div 1000)
    ELSE MulDiv(lrs[ExtremeLayer(lrs)].steel.fpy, EScale, lrs[ExtremeLayer(lrs)].steel.Es)

\* the layers of positive depth that no layer lies deeper than and no earlier
\* layer lies as deep as: the first layer of the greatest depth
DeepestFirst(lrs) ==
    { i \in DOMAIN lrs :
        /\ Gt(lrs[i].depth, 0)
        /\ \A j \in DOMAIN lrs : ~Gt(lrs[j].depth, lrs[i].depth)
        /\ \A j \in 1..(i - 1) : ~Ge(lrs[j].depth, lrs[i].depth) }

\* epsilonT, cOverD and the strain limits of the result res follow layer i
FollowsLayer(res, i) ==
    /\ res.epsilonT = res.layerResults[i].strain
    /\ res.cOverD = Div(res.c, res.layerResults[i].depth)
    /\ EpsilonTy(res.layerResults)
         = MulDiv(res.layerResults[i].steel.fpy, EScale, res.layerResults[i].steel.Es)

\* epsilonT = 0, epsilonTy = 0.002 and cOverD = c / 1
FollowsNoLayer(res) ==
    /\ res.epsilonT = 0
    /\ res.cOverD = Div(res.c, Num(1))
    /\ EpsilonTy(res.layerResults) = 2 * (EScale \div 1000)

ExtremeOfResult(res) ==
    IF DeepestFirst(res.layerResults) = {} THEN FollowsNoLayer(res)
    ELSE \A i \in DeepestFirst(res.layerResults) : FollowsLayer(res, i)

\* the layer the two components show is the one the result was computed from
PanelShowsSameLayer(res) ==
    /\ IF DeepestFirst(res.layerResults) = {} THEN ExtremeLayer(res.layerResults) = 0
       ELSE ExtremeLayer(res.layerResults) \in DeepestFirst(res.layerResults)
    /\ PanelEpsilonTy(res.layerResults) = EpsilonTy(res.layerResults)

\* C24: in every result returned, epsilonT is the strain of the first layer
\* of the greatest depth, epsilonTy its fpy / Es and cOverD = c over its depth
\* (0, 0.002 and c / 1 when no layer has a positive depth), and for every
\* result on display ResultsPanel and DesignGauges pick that same layer.
C24_ExtremeLayer ==
    /\ ret # Null => ExtremeOfResult(ret[1])
    /\ results # Null => ExtremeOfResult(results[1]) /\ PanelShowsSameLayer(results[1])


-----------------------------------------------------------------------------
(* The prestress force and its eccentricity in the cracking check *)

\* strand layers with a positive, a zero and a negative fse and a mild layer
PrestressRows ==
    {Row("grade270", Milli(612), Num(5), Num(170)),
     Row("grade270", Milli(918), Num(6), Num(150)),
     Row("grade270", Milli(612), Num(4), 0 - Num(10)),
     Row("grade60", Num(2), Num(7), 0)}

MaxLayers == 3

\* the lists of one to MaxLayers of these layers
PrestressLists ==
    UNION { [1..n -> PrestressRows] : n \in 1..MaxLayers }

PrestressForms ==
    {RectA, RectB,
     [RectB EXCEPT !.sectionType = "tbeam", !.bf = Num(24), !.bw = Num(10),
                   !.hf = Num(2)]}

ProbePrestress(form, rows) ==
    /\ probe = Null
    /\ probe' = Some([fn |-> "prestress", sect |-> FinalSection(form),
                      layers |-> FinalLayers(rows),
                      cracking |-> prestressAndCracking(FinalSection(form),
                                                        FinalLayers(rows), Num(100))])
    /\ UNCHANGED <<pc, caller, sec, layers, cLow, cHigh, c, iter, converged, ret,
                   results, section, error, hadResult,
                   beamForm, submitted>>

NextPrestress ==
    \E form \in PrestressForms, rows \in PrestressLists : ProbePrestress(form, rows)

SpecPrestress == Init /\ [][NextPrestress]_vars

\* the layer's fse * area if its fse > 0
PositiveForce(layer) == IF Gt(layer.fse, 0) THEN Mul(layer.fse, layer.area) ELSE 0

\* the sum of fse * area over the first n layers, those with fse > 0 only
RECURSIVE SumPositiveForce(_, _)
SumPositiveForce(steelLayers, n) ==
    IF n = 0 THEN 0
    ELSE Add(SumPositiveForce(steelLayers, n - 1), PositiveForce(steelLayers[n]))

\* the sum of fse * area * depth over the same layers
RECURSIVE SumPositiveMoment(_, _)
SumPositiveMoment(steelLayers, n) ==
    IF n = 0 THEN 0
    ELSE Add(SumPositiveMoment(steelLayers, n - 1),
             Mul(PositiveForce(steelLayers[n]), steelLayers[n].depth))

\* P, yps and e of the record r for the layers and the section properties
PrestressOf(r, steelLayers) ==
    /\ r.P = SumPositiveForce(steelLayers, Len(steelLayers))
    /\ r.P # 0 => r.yps = Div(SumPositiveMoment(steelLayers, Len(steelLayers)), r.P)
    /\ r.e = Sub(r.yps, r.sectionProps.yCg)

\* without prestress the centroid of the section stands in for yps
WithoutPrestress(r) ==
    r.P = 0 => /\ r.yps = r.sectionProps.yCg
               /\ r.e = 0
               /\ r.fpc = 0
               /\ r.Mcr = Mul(r.sectionProps.Sb, r.fr)

\* C25: the cracking check takes P = sum of fse * area over exactly the layers
\* with fse > 0, yps = sum(fse * area * depth) / P and e = yps - yCg, and with
\* P = 0 it takes yps = yCg, so that e = 0, fpc = 0 and Mcr = Sb * fr, all of
\* them numbers.
C25_PrestressOverPositiveFse ==
    (probe # Null /\ probe[1].fn = "prestress")
      => /\ PrestressOf(probe[1].cracking, probe[1].layers)
         /\ WithoutPrestress(probe[1].cracking)
         /\ ~IsNaN(probe[1].cracking.e) /\ ~IsNaN(probe[1].cracking.fpc)
         /\ ~IsNaN(probe[1].cracking.Mcr)

\* a list with a strand of positive fse next to one of negative fse has been
\* through the check
C25_Witness ==
    /\ probe # Null /\ probe[1].fn = "prestress"
    /\ \E i, j \in DOMAIN probe[1].layers :
          /\ Gt(probe[1].layers[i].fse, 0)
          /\ Lt(probe[1].layers[j].fse, 0)
    /\ Gt(probe[1].cracking.P, 0)


-----------------------------------------------------------------------------
(* The minimum-strength verdict *)

\* Mcr = Sb * (fr + P / A + P * e / Sb) from the numbers of the record k
McrOf(k) ==
    Mul(k.sectionProps.Sb,
        Add(Add(k.fr, Div(k.P, k.sectionProps.A)),
            Div(Mul(k.P, k.e), k.sectionProps.Sb)))

\* the verdict of the result res and the numbers reported next to it
VerdictConsistent(res) ==
    /\ res.cracking.Mcr = McrOf(res.cracking)
    /\ res.cracking.threshold = Mul(Milli(1200), res.cracking.Mcr)
    /\ res.cracking.passesMinStrength <=> Ge(res.phiMn, res.cracking.threshold)
    /\ res.phiMn = Mul(res.phi, res.Mn)
    /\ res.Mn = Sub(SumForceDepth(res.layerResults, 1), Mul(res.Cc, res.ccCentroid))
    /\ res.MnFt = Div(res.Mn, Num(12))
    /\ res.phiMnFt = Div(res.phiMn, Num(12))
    /\ res.cracking.McrFt = Div(res.cracking.Mcr, Num(12))
    /\ res.cracking.thresholdFt = Div(res.cracking.threshold, Num(12))

\* C26: in every result threshold = 1.2 * Mcr with Mcr = Sb * (fr + P / A +
\* P * e / Sb), passesMinStrength holds iff the phiMn of that result (phi * Mn,
\* Mn = sum of force * depth - Cc * ccCentroid) is at least the threshold, and
\* each kip-ft value is the kip-in value over 12.
C26_VerdictMatchesNumbers ==
    /\ ret # Null => VerdictConsistent(ret[1])
    /\ results # Null => VerdictConsistent(results[1])

\* a prestressed beam is on display whose phiMn is positive and below its
\* threshold
C26_Witness ==
    /\ results # Null
    /\ ~results[1].cracking.passesMinStrength
    /\ Gt(results[1].cracking.P, 0)
    /\ Gt(results[1].phiMn, 0)
    /\ Gt(results[1].cracking.threshold, results[1].cracking.Mcr)


-----------------------------------------------------------------------------
(* BeamInputForm: editing the section *)

\* the fields the form shows an input for, by section type
ShownFields(t) ==
    {"sectionType", "fc"}
    \cup (IF t = "tbeam" THEN {"bf", "bw", "hf", "h"}
          ELSE IF t = "doubletee" THEN {"bf", "hf", "stemWidth", "h"}
          ELSE IF t = "hollowcore" THEN {"bf", "h", "numVoids", "voidDiameter"}
          ELSE IF t = "sandwich" THEN {"bt", "ht", "hg", "bb", "hb"}
          ELSE {"bw", "h"})

\* the `if (field === 'sectionType')` block of handleSectionChange
TypeSwitched(u) ==
    IF u.sectionType = "rectangular" THEN [u EXCEPT !.bf = u.bw, !.hf = JNum(0)]
    ELSE IF u.sectionType = "tbeam"
    THEN [u EXCEPT !.hf = OrDefault(u.hf, JNum(Num(6))),
                   !.bf = OrDefault(u.bf, Plus(u.bw, JNum(Num(12))))]
    ELSE IF u.sectionType = "sandwich"
    THEN [u EXCEPT !.bt = OrDefault(u.bt, JNum(Num(16))),
                   !.ht = OrDefault(u.ht, JNum(Num(8))),
                   !.hg = OrDefault(u.hg, JNum(Num(4))),
                   !.bb = OrDefault(u.bb, JNum(Num(16))),
                   !.hb = OrDefault(u.hb, JNum(Num(8))),
                   !.h = Plus(Plus(OrDefault(u.ht, JNum(Num(8))),
                                   OrDefault(u.hg, JNum(Num(4)))),
                              OrDefault(u.hb, JNum(Num(8))))]
    ELSE IF u.sectionType = "doubletee"
    THEN [u EXCEPT !.bf = OrDefault(u.bf, JNum(Num(96))),
                   !.hf = OrDefault(u.hf, JNum(Num(2))),
                   !.h = OrDefault(u.h, JNum(Num(24))),
                   !.numStems = JNum(Num(2)),
                   !.stemWidth = OrDefault(u.stemWidth, JNum(Num(5))),
                   !.stemSpacing = OrDefault(u.stemSpacing, JNum(Num(40)))]
    ELSE \* hollowcore
         [u EXCEPT !.bf = OrDefault(u.bf, JNum(Num(48))),
                   !.h = OrDefault(u.h, JNum(Num(8))),
                   !.bw = OrDefault(u.bf, JNum(Num(48))),
                   !.hf = OrDefault(u.h, JNum(Num(8))),
                   !.numVoids = OrDefault(u.numVoids, JNum(Num(4))),
                   !.voidDiameter =
                       OrDefault(u.voidDiameter,
                                 JNum(Round(Mul(NumberOf(OrDefault(u.h, JNum(Num(8)))),
                                                Milli(670))))),
                   !.voidCenterDepth =
                       OrDefault(u.voidCenterDepth,
                                 JNum(Half(NumberOf(OrDefault(u.h, JNum(Num(8)))))))]

\* h recomputed when one of the three heights of a sandwich section changes
SandwichDepth(u, field) ==
    IF u.sectionType = "sandwich" /\ field \in {"ht", "hg", "hb"}
    THEN [u EXCEPT !.h = JNum(Add(Add(ParseFloatOf(u.ht), ParseFloatOf(u.hg)),
                                  ParseFloatOf(u.hb)))]
    ELSE u

\* the voids re-proportioned when the depth of a hollow-core section changes
HollowVoids(u, field) ==
    IF u.sectionType = "hollowcore" /\ field = "h"
    THEN [u EXCEPT !.voidDiameter = JNum(Round(Mul(NumberOf(u.h), Milli(670)))),
                   !.voidCenterDepth = JNum(Half(NumberOf(u.h))),
                   !.bw = u.bf, !.hf = u.h]
    ELSE u

\* bf follows bw in a rectangular section
RectangularWidth(u, field) ==
    IF field = "bw" /\ u.sectionType = "rectangular" THEN [u EXCEPT !.bf = u.bw] ELSE u

\* the section after handleSectionChange(field, value)
SectionChanged(sect, field, value) ==
    RectangularWidth(
        HollowVoids(
            SandwichDepth(
                IF field = "sectionType"
                THEN TypeSwitched([sect EXCEPT ![field] = value])
                ELSE [sect EXCEPT ![field] = value],
                field),
            field),
        field)

SectionTypes == {"rectangular", "tbeam", "sandwich", "doubletee", "hollowcore"}

\* the texts typed into the fields: "10" or nothing for ht, "2.5" for hg, "8"
\* for h, "24" for bf, "2" for numVoids, "3" for voidDiameter, "12" for bw
TypedTexts(field) ==
    IF field = "ht" THEN {<<1, 0>>, <<>>}
    ELSE IF field = "hg" THEN {<<2, Dot, 5>>}
    ELSE IF field = "h" THEN {<<8>>}
    ELSE IF field = "bf" THEN {<<2, 4>>}
    ELSE IF field = "numVoids" THEN {<<2>>}
    ELSE IF field = "voidDiameter" THEN {<<3>>}
    ELSE IF field = "bw" THEN {<<1, 2>>}
    ELSE {}

\* what the input's onChange hands to handleSectionChange: the text, for bw
\* parseFloat of the text
HandedOver(field, text) ==
    IF field = "bw" THEN JNum(ParseText(text)) ELSE JStr(text)

handleSectionChange(field, value) ==
    /\ field \in ShownFields(beamForm.section.sectionType)
    /\ beamForm' = [beamForm EXCEPT !.section = SectionChanged(@, field, value)]
    /\ submitted' = Null
    /\ UNCHANGED <<pc, caller, sec, layers, cLow, cHigh, c, iter, converged, ret,
                   results, section, error, hadResult, probe>>

ChangeSectionType ==
    \E value \in SectionTypes \ {beamForm.section.sectionType} :
        handleSectionChange("sectionType", value)

ChangeSectionField ==
    \E field \in DOMAIN DEFAULT_SECTION \ {"sectionType"} :
        \E text \in TypedTexts(field) :
            handleSectionChange(field, HandedOver(field, text))

\* the section and the layers as handleSubmit reads them in the state
SectionAsRead(sect) ==
    [f \in DOMAIN sect |-> IF f = "sectionType" THEN sect[f] ELSE FieldText(sect[f])]

LayersAsRead(formLayers) ==
    [i \in DOMAIN formLayers |->
        Row(formLayers[i].steelPresetId, FieldText(formLayers[i].area),
            FieldText(formLayers[i].depth), FieldText(formLayers[i].fse))]

\* handleSubmit of the form: onCalculate(finalSection, finalLayers)
SubmitForm ==
    /\ beamForm.shownNextId = beamForm.nextId
    /\ submitted' = Some([section |-> FinalSection(SectionAsRead(beamForm.section)),
                          layers |-> FinalLayers(LayersAsRead(beamForm.layers))])
    /\ UNCHANGED <<pc, caller, sec, layers, cLow, cHigh, c, iter, converged, ret,
                   results, section, error, hadResult, probe, beamForm>>

NextSectionForm == ChangeSectionType \/ ChangeSectionField \/ SubmitForm

SpecSectionForm == Init /\ [][NextSectionForm]_vars

C28_VoidsInsideSection ==
    (submitted # Null /\ submitted[1].section.sectionType = "hollowcore")
      => /\ Ge(Sub(submitted[1].section.voidCenterDepth,
                   Half(submitted[1].section.voidDiameter)), 0)
         /\ Le(Add(submitted[1].section.voidCenterDepth,
                   Half(submitted[1].section.voidDiameter)), submitted[1].section.h)
         /\ Le(Mul(submitted[1].section.numVoids, submitted[1].section.voidDiameter),
               submitted[1].section.bf)


-----------------------------------------------------------------------------
(* BeamInputForm: editing the steel layers *)

\* the form holds at most MaxFormLayers layers and hands out ids below MaxNextId
MaxFormLayers == 3
MaxNextId == 5

\* a layer's record after handleLayerChange took in the value but left fse
\* as it was
LayerChangedKeepingFse(l, field, value) == [l EXCEPT ![field] = value]

\* the callback of prev.map for the layer addressed: the field takes the
\* value, and a steel preset brings its defaultFse
LayerChanged(l, field, value) ==
    IF field = "steelPresetId" /\ \E i \in DOMAIN steelPresets : steelPresets[i].id = value
    THEN [l EXCEPT ![field] = value, !.fse = JNum(Preset(value).defaultFse)]
    ELSE [l EXCEPT ![field] = value]

handleLayerChange(id, field, value) ==
    /\ beamForm.shownNextId = beamForm.nextId
    /\ beamForm' = [beamForm EXCEPT !.layers =
                      [i \in DOMAIN @ |-> IF @[i].id # id THEN @[i]
                                          ELSE LayerChanged(@[i], field, value)]]
    /\ submitted' = Null
    /\ UNCHANGED <<pc, caller, sec, layers, cLow, cHigh, c, iter, converged, ret,
                   results, section, error, hadResult, probe>>

\* the steel types chosen in the select
ChosenPresets == {"grade60", "grade270", "grade250"}

\* the text typed into a layer's fse field: "150"
TypedFse == {<<1, 5, 0>>}

\* the select of a layer on screen
ChooseSteel ==
    \E i \in DOMAIN beamForm.layers, value \in ChosenPresets :
        /\ value # beamForm.layers[i].steelPresetId
        /\ handleLayerChange(beamForm.layers[i].id, "steelPresetId", value)

\* the fse field of a layer on screen, disabled while the layer is mild
TypeFse ==
    \E i \in DOMAIN beamForm.layers, text \in TypedFse :
        /\ Preset(beamForm.layers[i].steelPresetId).category # "mild"
        /\ handleLayerChange(beamForm.layers[i].id, "fse", JStr(text))

\* addLayer as the render on screen defined it: the id is the nextId of that
\* render
addLayer ==
    /\ Len(beamForm.layers) < MaxFormLayers
    /\ beamForm.nextId < MaxNextId
    /\ beamForm' = [beamForm EXCEPT !.layers = Append(@, NewLayer(beamForm.shownNextId)),
                                    !.nextId = @ + 1]
    /\ submitted' = Null
    /\ UNCHANGED <<pc, caller, sec, layers, cLow, cHigh, c, iter, converged, ret,
                   results, section, error, hadResult, probe>>

\* the component renders again: its handlers now close over the state
Render ==
    /\ beamForm.shownNextId # beamForm.nextId
    /\ beamForm' = [beamForm EXCEPT !.shownNextId = beamForm.nextId]
    /\ UNCHANGED <<pc, caller, sec, layers, cLow, cHigh, c, iter, converged, ret,
                   results, section, error, hadResult, probe, submitted>>

\* prev.filter((l) => l.id !== id)
RECURSIVE WithoutId(_, _)
WithoutId(ls, id) ==
    IF ls = <<>> THEN <<>>
    ELSE IF Head(ls).id = id THEN WithoutId(Tail(ls), id)
    ELSE <<Head(ls)>> \o WithoutId(Tail(ls), id)

\* the remove button of a layer, shown while layers.length > 1
removeLayer ==
    /\ beamForm.shownNextId = beamForm.nextId
    /\ Len(beamForm.layers) > 1
    /\ \E i \in DOMAIN beamForm.layers :
          beamForm' = [beamForm EXCEPT !.layers = WithoutId(@, beamForm.layers[i].id)]
    /\ submitted' = Null
    /\ UNCHANGED <<pc, caller, sec, layers, cLow, cHigh, c, iter, converged, ret,
                   results, section, error, hadResult, probe>>

NextLayerForm ==
    \/ ChooseSteel
    \/ TypeFse
    \/ addLayer
    \/ Render
    \/ removeLayer
    \/ SubmitForm

SpecLayerForm == Init /\ [][NextLayerForm]_vars

\* C29: whatever was added, removed and changed in the form, every layer
\* submitted whose steel is of category mild carries fse = 0.
C29_MildLayersWithoutPrestress ==
    submitted # Null =>
        \A i \in DOMAIN submitted[1].layers :
            submitted[1].layers[i].steel.category = "mild"
              => submitted[1].layers[i].fse = 0

\* a mild layer is submitted next to a strand whose fse was typed in
C29_Witness ==
    /\ submitted # Null
    /\ \E i, j \in DOMAIN submitted[1].layers :
          /\ submitted[1].layers[i].steel.category = "mild"
          /\ submitted[1].layers[j].steel.category # "mild"
          /\ submitted[1].layers[j].fse = ParseText(<<1, 5, 0>>)

\* C30: no two layers of the form share an id, and the list of layers is
\* never empty.
C30_LayerIdsUnique ==
    /\ \A i, j \in DOMAIN beamForm.layers :
          i # j => beamForm.layers[i].id # beamForm.layers[j].id
    /\ Len(beamForm.layers) >= 1

=============================================================================
